---- MODULE Spec2Model ----
(***************************************************************************)
(* Fixel-based statistics (fixelcfestats): the streamline connectivity     *)
(* build, the normalisation and smoothing of the connectivity graph, the   *)
(* fixed-design GLM t-test and the conversion of statistics to p-values.   *)
(***************************************************************************)
EXTENDS Integers, Sequences, FiniteSets, TLC

VARIABLES
    \* ---- connectivity build (fixelcfestats.cpp run(), lines 290-317)
    phase,                \* "build" while run_queue is running, "built" after track_file.close()
    track_file,           \* the streamlines of the file still to be read, in file order
    num_preloaded,        \* streamlines read and committed before the window the model follows
    loader_queue,         \* loader -> mapper queue
    mapper_item,          \* per mapper: << >>, or the one streamline it is mapping
    mapper_queue,         \* mapper -> accumulator queue (SetVoxelDir items)
    acc,                  \* per accumulator: pc, visit list, loop indices
    mutex,                \* 0, or the accumulator that holds the graph lock
    fixel_TDI,            \* vector<uint16_t> fixel_TDI
    connectivity_matrix,  \* vector<std::map<uint32_t, connectivity>>: the co-traversal counts
    track_input,          \* the whole window of the file, as given (never changed)
    \* ---- options (run(), lines 184-193)
    connectivity_threshold, \* -connectivity
    smooth_fwhm,          \* -smooth, the FWHM in mm
    \* ---- normalisation and smoothing (run(), lines 319-412)
    do_smoothing,
    gaussian_const1,
    norm_fixel,           \* the fixel the normalisation loop is at
    smoothing_weights,    \* vector<std::map<uint32_t, connectivity_value_type>>
    subject_image,        \* the columns read from the subjects' images, as read
    data,                 \* matrix_type data, one (smoothed) column per subject loaded
    nans_in_data,
    \* ---- GLMTTest (glm.h, lines 152-216)
    glm_pc,               \* where GLMTTest::operator() is: "start", "loop", "returned", "aborted"
    y,                    \* measurements: one row per element (fixel), one column per subject
    X,                    \* design matrix
    pinvX,                \* its pseudo-inverse
    scaled_contrasts,     \* the scaled contrast (a column)
    perm_labelling,       \* argument: the permutation of the subjects
    stats,                \* argument (out): the t-statistics
    max_stat,             \* argument (in/out)
    min_stat,             \* argument (in/out)
    SX,                   \* locals of operator()
    pinvSX,
    batch_i,              \* the loop variable i of the batch loop
    heap_overrun,         \* a write past the end of stats has happened
    caller_stat,          \* max_stat and min_stat as the caller handed them in
    \* ---- statistic2pvalue (permute.h, lines 190-216)
    pv_pc,                \* "start", "loop", "done"
    perm_dist,            \* argument: the maximum statistic of every permutation
    permutations,         \* local: the sorted copy
    stat_voxel,           \* argument: the observed statistic of every voxel
    p_voxel,              \* argument (out): the value assigned to every voxel
    outer,                \* the loop over the voxels: the next voxel to visit
    \* ---- generation of the permutations (is_duplicate_permutation, permute.h lines 41-57)
    gen_pc,               \* "start", "draw", "test", "done", "failed"
    gen_subjects,         \* the number of subjects S
    gen_requested,        \* the number of permutations asked for
    perm_stack,           \* the permutations accepted so far
    permuted_labelling,   \* the candidate drawn
    \* ---- the order of run() (fixelcfestats.cpp, lines 195-600)
    run_pc,               \* the step run() is at
    run_input,            \* the shapes of what the command line names
    run_error,            \* the exception thrown, "" while none
    run_warned,           \* the warning about the number of tracks has been emitted
    run_started,          \* the phases of heavy computation that have started
    run_overrun,          \* a row beyond the end of a matrix has been used
    run_output,           \* what the output fixel directory holds
    \* ---- rank (permute.h, lines 76-86)
    rank_pc,              \* "loop", "returned"
    rank_S,               \* the singular values, as gsl_linalg_SV_decomp leaves them
    rank_n,               \* the loop variable n
    rank_result,          \* the value returned
    \* ---- the permutation pipeline (run_permutations, fixelcfestats.cpp lines 566-577)
    pipe_pc,              \* of every worker: "idle", "holding", "stopped"
    pipe_held,            \* of every worker: the permutation index it holds
    pipe_counter,         \* the next permutation index the source produces
    pipe_queue,           \* the queue between the source and the workers
    pipe_nperms,          \* num_perms
    pipe_assigned,        \* of every permutation index: the workers that took it, in order
    pipe_written,         \* of every row of the null distribution: the workers that wrote it, in order
    \* ---- the statistics of the default permutation with element-wise design
    \*      columns (fixelcfestats.cpp, lines 446-512)
    num_fixels,           \* Source::num_fixels
    counter,              \* Source::counter
    source_pc,            \* "running", "ended" once Source::operator() has returned false
    index_queue,          \* the fixel indices between the source and the functors
    functor_pc,           \* of every copy of the functor: "idle", "holding", "ended"
    functor_index,        \* of every copy of the functor: the fixel_index it was called with
    global_columns        \* of every fixel: the functors that wrote its column of the four matrices

buildVars == <<phase, track_file, num_preloaded, loader_queue, mapper_item,
               mapper_queue, acc, mutex, fixel_TDI, connectivity_matrix, track_input>>

optVars == <<connectivity_threshold, smooth_fwhm>>

normVars == <<do_smoothing, gaussian_const1, norm_fixel, smoothing_weights,
              subject_image, data, nans_in_data>>

glmVars == <<glm_pc, y, X, pinvX, scaled_contrasts, perm_labelling, stats, max_stat,
             min_stat, SX, pinvSX, batch_i, heap_overrun, caller_stat>>

\* what the connectivity build, the normalisation and the smoothing leave alone
pvalueVars == <<pv_pc, perm_dist, permutations, stat_voxel, p_voxel, outer>>

genVars == <<gen_pc, gen_subjects, gen_requested, perm_stack, permuted_labelling>>

runVars == <<run_pc, run_input, run_error, run_warned, run_started, run_overrun,
             run_output>>

rankVars == <<rank_pc, rank_S, rank_n, rank_result>>

pipeVars == <<pipe_pc, pipe_held, pipe_counter, pipe_queue, pipe_nperms, pipe_assigned,
              pipe_written>>

allStatsVars == <<num_fixels, counter, source_pc, index_queue, functor_pc, functor_index,
                  global_columns>>

supportVars == <<genVars, runVars, rankVars, pipeVars, allStatsVars>>

notConnectivity == <<glmVars, pvalueVars, supportVars>>

\* everything the threads of the build leave alone
notBuild == <<optVars, normVars, notConnectivity>>

\* what GLMTTest leaves alone
notGLM == <<buildVars, optVars, normVars, pvalueVars, supportVars>>

\* what statistic2pvalue leaves alone
notPvalue == <<buildVars, optVars, normVars, glmVars, supportVars>>

coreVars == <<buildVars, optVars, normVars, glmVars, pvalueVars>>

notGen == <<coreVars, runVars, rankVars, pipeVars, allStatsVars>>
notRun == <<coreVars, genVars, rankVars, pipeVars, allStatsVars>>
notRank == <<coreVars, genVars, runVars, pipeVars, allStatsVars>>
notPipe == <<coreVars, genVars, runVars, rankVars, allStatsVars>>
notAllStats == <<coreVars, genVars, runVars, rankVars, pipeVars>>

vars == <<coreVars, supportVars>>

(***************************************************************************)
(* Bounds of the model.                                                    *)
(***************************************************************************)
MaxTracks == 2          \* streamlines of the file the model follows one by one
NumMappers == 1         \* mapper threads
NumAccumulators == 2    \* accumulator threads
QueueCap == 1           \* capacity of each queue of the pipeline

(***************************************************************************)
(* Floating-point values, without rounding: a finite value is an exact     *)
(* fraction n/d in lowest terms (d > 0); the non-finite values are the     *)
(* two infinities and NaN, with the IEEE 754 rules for them.               *)
(***************************************************************************)
Abs(n) == IF n < 0 THEN -n ELSE n
Sign(n) == IF n < 0 THEN -1 ELSE IF n > 0 THEN 1 ELSE 0

RECURSIVE GCD(_, _)
GCD(a, b) == IF b = 0 THEN a ELSE GCD(b, a % b)

Fin(n, d) ==
    LET g == GCD(Abs(n), d)
    IN  [k |-> "fin", n |-> n \div g, d |-> d \div g]
Inf(s) == [k |-> "inf", n |-> s, d |-> 0]
NaN == [k |-> "nan", n |-> 0, d |-> 0]

Zero == Fin(0, 1)
One == Fin(1, 1)

\* std::isfinite
IsFinite(a) == a.k = "fin"
IsNaN(a) == a.k = "nan"

XAdd(a, b) ==
    CASE IsNaN(a) \/ IsNaN(b) -> NaN
      [] a.k = "inf" /\ b.k = "inf" -> IF a.n = b.n THEN a ELSE NaN
      [] a.k = "inf" -> a
      [] b.k = "inf" -> b
      [] OTHER -> LET g == GCD(a.d, b.d)
                  IN  Fin(a.n * (b.d \div g) + b.n * (a.d \div g), (a.d \div g) * b.d)

XNeg(a) == IF IsNaN(a) THEN NaN ELSE [a EXCEPT !.n = -@]

XSub(a, b) == XAdd(a, XNeg(b))

XMul(a, b) ==
    CASE IsNaN(a) \/ IsNaN(b) -> NaN
      [] a.k = "inf" \/ b.k = "inf" ->
            IF a.n = 0 \/ b.n = 0 THEN NaN ELSE Inf(Sign(a.n) * Sign(b.n))
      [] OTHER -> LET g == GCD(Abs(a.n), b.d)
                      h == GCD(Abs(b.n), a.d)
                  IN  Fin((a.n \div g) * (b.n \div h), (a.d \div h) * (b.d \div g))

\* a / b; a zero divisor is +0
XDiv(a, b) ==
    CASE IsNaN(a) \/ IsNaN(b) -> NaN
      [] a.k = "inf" -> IF b.k = "inf" THEN NaN
                        ELSE Inf(a.n * (IF b.n < 0 THEN -1 ELSE 1))
      [] b.k = "inf" -> Zero
      [] b.n = 0 -> IF a.n = 0 THEN NaN ELSE Inf(Sign(a.n))
      [] OTHER -> XMul(a, [k |-> "fin", n |-> b.d * Sign(b.n), d |-> Abs(b.n)])

\* a < b; false when either is NaN
XLess(a, b) ==
    CASE IsNaN(a) \/ IsNaN(b) -> FALSE
      [] a.k = "inf" /\ b.k = "inf" -> a.n < b.n
      [] a.k = "inf" -> a.n < 0
      [] b.k = "inf" -> b.n > 0
      [] OTHER -> LET g == GCD(a.d, b.d)
                  IN  a.n * (b.d \div g) < b.n * (a.d \div g)

\* a value used as a condition: anything but zero, NaN included
Truthy(a) == ~(a.k = "fin" /\ a.n = 0)

(***************************************************************************)
(* The fixel atlas: three voxels in a line; voxel 1 holds two crossing     *)
(* fixels (0 along x, 1 along y), voxels 2 and 3 one fixel each along x.   *)
(***************************************************************************)
Fixels == 0..3
Voxels == 1..3

\* index image: channel 0 = number of fixels in the voxel, channel 1 = offset
IndexImage ==
    [v \in Voxels |->
        CASE v = 1 -> [count |-> 2, offset |-> 0]
          [] v = 2 -> [count |-> 1, offset |-> 2]
          [] v = 3 -> [count |-> 1, offset |-> 3]]

\* directions image, indexed by fixel + 1
FixelDirections == <<"x", "y", "x", "x">>

Tangents == {"x", "y", "x30", "z"}

\* |tangent . direction| in thousandths; "x30" lies 30 degrees from x in the xy plane
AbsDot(t, d) ==
    CASE t = "x"   -> IF d = "x" THEN 1000 ELSE 0
      [] t = "y"   -> IF d = "y" THEN 1000 ELSE 0
      [] t = "x30" -> IF d = "x" THEN 866 ELSE 500
      [] t = "z"   -> 0

\* cos(DEFAULT_ANGLE_THRESHOLD = 45 degrees), in thousandths
AngularThresholdDP == 707

\* uint16_t
TDIWidth == 16
TDIModulus == 2 ^ TDIWidth

(***************************************************************************)
(* Streamlines.  A raw streamline is the sequence of its samples; it may   *)
(* pass through a voxel more than once.                                    *)
(***************************************************************************)
Sample(v, t) == [vox |-> v, tan |-> t]

Catalogue ==
    << << Sample(1, "x"), Sample(2, "x"), Sample(1, "x"), Sample(3, "x") >>,
       << Sample(1, "y"), Sample(2, "x30") >>,
       << Sample(1, "z"), Sample(3, "z") >> >>

TrackIds == DOMAIN Catalogue

\* TrackMapperBase with precise mapping: one (voxel, tangent) element per visited
\* voxel; repeated visits of a voxel are merged (in the catalogue the visits of
\* one voxel share their tangent, so the merged tangent is that tangent)
MapTrack(raw) ==
    { Sample(v, raw[CHOOSE k \in DOMAIN raw :
                      /\ raw[k].vox = v
                      /\ \A m \in DOMAIN raw : raw[m].vox = v => k <= m].tan)
        : v \in { raw[k].vox : k \in DOMAIN raw } }

\* the fixels of a voxel
FixelRange(v) == IndexImage[v].offset .. (IndexImage[v].offset + IndexImage[v].count - 1)

\* the fixel of the voxel that maximises |tangent . direction|
ClosestFixel(v, t) ==
    CHOOSE f \in FixelRange(v) :
        \A g \in FixelRange(v) :
            \/ AbsDot(t, FixelDirections[f + 1]) > AbsDot(t, FixelDirections[g + 1])
            \/ /\ AbsDot(t, FixelDirections[f + 1]) = AbsDot(t, FixelDirections[g + 1])
               /\ f <= g

\* a sample is assigned when the angle to the closest fixel is within the threshold
WithinAngle(v, t) ==
    AbsDot(t, FixelDirections[ClosestFixel(v, t) + 1]) >= AngularThresholdDP

\* TrackProcessor: the fixels a mapped streamline is assigned to, in voxel order
RECURSIVE AssignFixels(_, _)
AssignFixels(in, v) ==
    IF v \notin Voxels THEN << >>
    ELSE LET here == { s \in in : s.vox = v }
             rest == AssignFixels(in, v + 1)
         IN  IF here = {} THEN rest
             ELSE LET s == CHOOSE s \in here : TRUE
                  IN  IF IndexImage[v].count > 0 /\ WithinAngle(v, s.tan)
                      THEN << ClosestFixel(v, s.tan) >> \o rest
                      ELSE rest

TractFixelIndices(in) == AssignFixels(in, 1)

\* the fixels streamline `id` of the catalogue is assigned to
VisitOf(id) == TractFixelIndices(MapTrack(Catalogue[id]))

Range(s) == { s[k] : k \in DOMAIN s }

(***************************************************************************)
(* The shared graph.                                                       *)
(***************************************************************************)
\* fixel_TDI[f]++ on a uint16_t
IncTDI(tdi, f) == [tdi EXCEPT ![f] = (@ + 1) % TDIModulus]

\* connectivity_matrix[i][j].value++ : operator[] inserts a zero entry if absent
IncEdge(cm, i, j) ==
    [cm EXCEPT ![i] = IF j \in DOMAIN @ THEN [@ EXCEPT ![j] = @ + 1]
                      ELSE @ @@ (j :> 1)]

EdgeCount(cm, i, j) == IF j \in DOMAIN cm[i] THEN cm[i][j] ELSE 0

EmptyRow == [j \in {} |-> 0]

Mappers == 1..NumMappers
Accumulators == 1..NumAccumulators

IdleAcc == [pc |-> "idle", visit |-> << >>, i |-> 0, j |-> 0]

\* the state after `n` copies of streamline 1 have been committed
PreloadedTDI(n) ==
    [f \in Fixels |-> IF f \in Range(VisitOf(1)) THEN n % TDIModulus ELSE 0]

PreloadedMatrix(n) ==
    [i \in Fixels |->
        IF n > 0 /\ i \in Range(VisitOf(1))
        THEN [j \in Range(VisitOf(1)) \ {i} |-> n]
        ELSE EmptyRow]

\* enough earlier streamlines that the window reaches the end of the uint16_t range
NearWrap == TDIModulus - 1

TrackWindows == UNION { [1..n -> TrackIds] : n \in 1..MaxTracks }

InitBuild ==
    /\ phase = "build"
    /\ track_input \in TrackWindows
    /\ track_file = track_input
    /\ num_preloaded \in {0, NearWrap}
    /\ loader_queue = << >>
    /\ mapper_item = [m \in Mappers |-> << >>]
    /\ mapper_queue = << >>
    /\ acc = [w \in Accumulators |-> IdleAcc]
    /\ mutex = 0
    /\ fixel_TDI = PreloadedTDI(num_preloaded)
    /\ connectivity_matrix = PreloadedMatrix(num_preloaded)

\* TrackLoader: reads the next streamline of the file
Load ==
    /\ phase = "build"
    /\ track_file # << >>
    /\ Len(loader_queue) < QueueCap
    /\ loader_queue' = Append(loader_queue, Head(track_file))
    /\ track_file' = Tail(track_file)
    /\ UNCHANGED <<phase, num_preloaded, mapper_item, mapper_queue, acc, mutex,
                   fixel_TDI, connectivity_matrix, track_input, notBuild>>

\* a mapper takes a streamline off the loader's queue
MapTake(m) ==
    /\ phase = "build"
    /\ mapper_item[m] = << >>
    /\ loader_queue # << >>
    /\ mapper_item' = [mapper_item EXCEPT ![m] = << Head(loader_queue) >>]
    /\ loader_queue' = Tail(loader_queue)
    /\ UNCHANGED <<phase, track_file, num_preloaded, mapper_queue, acc, mutex,
                   fixel_TDI, connectivity_matrix, track_input, notBuild>>

\* ... and passes the mapped streamline on
MapPut(m) ==
    /\ phase = "build"
    /\ mapper_item[m] # << >>
    /\ Len(mapper_queue) < QueueCap
    /\ mapper_queue' = Append(mapper_queue, MapTrack(Catalogue[mapper_item[m][1]]))
    /\ mapper_item' = [mapper_item EXCEPT ![m] = << >>]
    /\ UNCHANGED <<phase, track_file, num_preloaded, loader_queue, acc, mutex,
                   fixel_TDI, connectivity_matrix, track_input, notBuild>>

\* an accumulator takes a mapped streamline and assigns its samples to fixels
AccTake(w) ==
    /\ phase = "build"
    /\ acc[w].pc = "idle"
    /\ mapper_queue # << >>
    /\ acc' = [acc EXCEPT ![w] = [pc |-> "assigned",
                                  visit |-> TractFixelIndices(Head(mapper_queue)),
                                  i |-> 0, j |-> 0]]
    /\ mapper_queue' = Tail(mapper_queue)
    /\ UNCHANGED <<phase, track_file, num_preloaded, loader_queue, mapper_item, mutex,
                   fixel_TDI, connectivity_matrix, track_input, notBuild>>

\* where the commit goes after the track-density increments
AfterTDI(visit) ==
    IF Len(visit) >= 2 THEN [pc |-> "fwd", visit |-> visit, i |-> 1, j |-> 2]
    ELSE [pc |-> "unlock", visit |-> visit, i |-> 0, j |-> 0]

\* the commit of a streamline starts: the accumulator takes the graph lock
AccLock(w) ==
    /\ acc[w].pc = "assigned"
    /\ mutex = 0
    /\ mutex' = w
    /\ acc' = [acc EXCEPT ![w] =
                 IF Len(@.visit) = 0 THEN AfterTDI(@.visit)
                 ELSE [pc |-> "tdi", visit |-> @.visit, i |-> 1, j |-> 0]]
    /\ UNCHANGED <<phase, track_file, num_preloaded, loader_queue, mapper_item,
                   mapper_queue, fixel_TDI, connectivity_matrix, track_input, notBuild>>

\* fixel_TDI[closest_fixel_index]++, once per assigned sample
AccTDI(w) ==
    /\ acc[w].pc = "tdi"
    /\ mutex = w
    /\ fixel_TDI' = IncTDI(fixel_TDI, acc[w].visit[acc[w].i])
    /\ acc' = [acc EXCEPT ![w] =
                 IF @.i < Len(@.visit) THEN [@ EXCEPT !.i = @ + 1]
                 ELSE AfterTDI(@.visit)]
    /\ UNCHANGED <<phase, track_file, num_preloaded, loader_queue, mapper_item,
                   mapper_queue, mutex, connectivity_matrix, track_input, notBuild>>

\* connectivity_matrix[visit[i]][visit[j]].value++
AccPairFwd(w) ==
    /\ acc[w].pc = "fwd"
    /\ mutex = w
    /\ connectivity_matrix' =
           IncEdge(connectivity_matrix, acc[w].visit[acc[w].i], acc[w].visit[acc[w].j])
    /\ acc' = [acc EXCEPT ![w].pc = "bwd"]
    /\ UNCHANGED <<phase, track_file, num_preloaded, loader_queue, mapper_item,
                   mapper_queue, mutex, fixel_TDI, track_input, notBuild>>

\* (mutant) the outer loop never advances
NextPair_FirstRow(a) ==
    IF a.j < Len(a.visit) THEN [a EXCEPT !.pc = "fwd", !.j = @ + 1]
    ELSE [a EXCEPT !.pc = "unlock", !.i = 0, !.j = 0]

\* the pair after (i, j) in the loops  for i: for j = i+1 ..
NextPair(a) ==
    IF a.j < Len(a.visit) THEN [a EXCEPT !.pc = "fwd", !.j = @ + 1]
    ELSE IF a.i + 1 < Len(a.visit)
         THEN [a EXCEPT !.pc = "fwd", !.i = @ + 1, !.j = a.i + 2]
         ELSE [a EXCEPT !.pc = "unlock", !.i = 0, !.j = 0]

\* connectivity_matrix[visit[j]][visit[i]].value++
AccPairBwd(w) ==
    /\ acc[w].pc = "bwd"
    /\ mutex = w
    /\ connectivity_matrix' =
           IncEdge(connectivity_matrix, acc[w].visit[acc[w].j], acc[w].visit[acc[w].i])
    /\ acc' = [acc EXCEPT ![w] = NextPair(@)]
    /\ UNCHANGED <<phase, track_file, num_preloaded, loader_queue, mapper_item,
                   mapper_queue, mutex, fixel_TDI, track_input, notBuild>>

\* the commit is over: the lock is released
AccUnlock(w) ==
    /\ acc[w].pc = "unlock"
    /\ mutex = w
    /\ mutex' = 0
    /\ acc' = [acc EXCEPT ![w] = IdleAcc]
    /\ UNCHANGED <<phase, track_file, num_preloaded, loader_queue, mapper_item,
                   mapper_queue, fixel_TDI, connectivity_matrix, track_input, notBuild>>

\* (mutant) run_queue returning as soon as the loader has read the whole file
PipelineDrained_NoJoin == track_file = << >>

\* run_queue returns when every thread has finished; track_file.close()
PipelineDrained ==
    /\ track_file = << >>
    /\ loader_queue = << >>
    /\ \A m \in Mappers : mapper_item[m] = << >>
    /\ mapper_queue = << >>
    /\ \A w \in Accumulators : acc[w].pc = "idle"

CloseTracks ==
    /\ phase = "build"
    /\ PipelineDrained
    /\ phase' = "built"
    /\ UNCHANGED <<track_file, num_preloaded, loader_queue, mapper_item, mapper_queue,
                   acc, mutex, fixel_TDI, connectivity_matrix, track_input, notBuild>>

NextBuild ==
    \/ Load
    \/ \E m \in Mappers : MapTake(m)
    \/ \E m \in Mappers : MapPut(m)
    \/ \E w \in Accumulators : AccTake(w)
    \/ \E w \in Accumulators : AccLock(w)
    \/ \E w \in Accumulators : AccTDI(w)
    \/ \E w \in Accumulators : AccPairFwd(w)
    \/ \E w \in Accumulators : AccPairBwd(w)
    \/ \E w \in Accumulators : AccUnlock(w)
    \/ CloseTracks

(***************************************************************************)
(* Normalisation of the connectivity matrix and the smoothing weights      *)
(* (run(), lines 319-367).                                                 *)
(***************************************************************************)
\* scanner positions of the fixels in mm, indexed by fixel + 1: the voxels lie
\* 2 mm apart on the x axis
Positions == << <<0, 0, 0>>, <<0, 0, 0>>, <<2, 0, 0>>, <<4, 0, 0>> >>

Pow2(x) == x * x

\* the square of the distance between two fixels
Distance2(f, g) ==
    Pow2(Positions[f + 1][1] - Positions[g + 1][1])
        + Pow2(Positions[f + 1][2] - Positions[g + 1][2])
        + Pow2(Positions[f + 1][3] - Positions[g + 1][3])

\* #define DEFAULT_SMOOTHING_STD 10.0 (a FWHM in mm), DEFAULT_CONNECTIVITY_THRESHOLD 0.01
DEFAULT_SMOOTHING_STD == 10
DEFAULT_CONNECTIVITY_THRESHOLD == Fin(1, 100)

SmoothOptions == {0, DEFAULT_SMOOTHING_STD}
ThresholdOptions == {DEFAULT_CONNECTIVITY_THRESHOLD, Fin(1, 2), Fin(3, 4)}

\* gaussian_const1: 1 / (smooth_std_dev * sqrt (2 pi)) with smooth_std_dev =
\* FWHM / 2.3548, i.e. 0.094 for the FWHM of 10 mm, to one decimal; 1.0 without
\* smoothing
GaussianConst1(fwhm) == IF fwhm > 0 THEN Fin(1, 10) ELSE One

\* std::exp (-distance^2 / gaussian_const2) for the FWHM of 10 mm (gaussian_const2
\* = 36.07): 1, 0.895 and 0.642 at 0, 2 and 4 mm, to one decimal
ExpTerm(dist2) ==
    CASE dist2 = 0  -> One
      [] dist2 = 4  -> Fin(9, 10)
      [] dist2 = 16 -> Fin(6, 10)

\* the value a connectivity entry holds: a count during the build, then
\* std::pow (connectivity, cfe_c), kept as its base and exponent
PowC(x) == [pow_base |-> x, pow_exp |-> "cfe_c"]
Connectivity(x) == [pow_base |-> x, pow_exp |-> "1"]

\* it->second.value / connectivity_value_type (fixel_TDI[fixel])
Fraction(count, tdi) == XDiv(Fin(count, 1), Fin(tdi, 1))

\* the edges strictly above the threshold
KeptEdges_Above(row, tdi, threshold) ==
    { j \in DOMAIN row : XLess(threshold, Fraction(row[j], tdi)) }

\* the edges of a row that survive:  if (connectivity < connectivity_threshold) erase
KeptEdges(row, tdi, threshold) ==
    { j \in DOMAIN row : ~XLess(Fraction(row[j], tdi), threshold) }

\* connectivity * gaussian_const1 * std::exp (...)
SmoothingWeight(f, j, count, tdi, g1) ==
    XMul(XMul(Fraction(count, tdi), g1), ExpTerm(Distance2(f, j)))

\* std::map::insert: an existing key keeps its value
MapInsert(m, key, value) == IF key \in DOMAIN m THEN m ELSE m @@ (key :> value)

\* the sum of the values of a map, in key order
RECURSIVE SumValues(_, _)
SumValues(m, keys) ==
    IF keys = {} THEN Zero
    ELSE LET j == CHOOSE x \in keys : \A k \in keys : x >= k
         IN  XAdd(SumValues(m, keys \ {j}), m[j])

\* smooth_it->second *= norm_factor, with norm_factor = 1.0 / sum
NormaliseWeights(m) ==
    LET norm_factor == XDiv(One, SumValues(m, DOMAIN m))
    IN  [j \in DOMAIN m |-> XMul(m[j], norm_factor)]

\* the new connectivity row of fixel f
NormalisedRow(f, row, tdi, threshold) ==
    MapInsert([j \in KeptEdges(row, tdi, threshold) |-> PowC(Fraction(row[j], tdi))],
              f, Connectivity(One))

\* (mutant) the neighbours' weights recorded whether or not smoothing is on
SmoothingRow_IgnoringFlag(f, row, tdi, threshold, smoothing, g1) ==
    LET kept == KeptEdges(row, tdi, threshold)
        near == { j \in kept :
                    XLess(Fin(1, 100), SmoothingWeight(f, j, row[j], tdi, g1)) }
        weights == [j \in near |-> SmoothingWeight(f, j, row[j], tdi, g1)]
    IN  NormaliseWeights(MapInsert(weights, f, g1))

\* the smoothing row of fixel f
SmoothingRow(f, row, tdi, threshold, smoothing, g1) ==
    LET kept == KeptEdges(row, tdi, threshold)
        near == IF smoothing
                THEN { j \in kept :
                         XLess(Fin(1, 100), SmoothingWeight(f, j, row[j], tdi, g1)) }
                ELSE {}
        weights == [j \in near |-> SmoothingWeight(f, j, row[j], tdi, g1)]
    IN  NormaliseWeights(MapInsert(weights, f, g1))

\* lines 319-328: the constants of the kernel
BeginNormalise ==
    /\ phase = "built"
    /\ phase' = "normalise"
    /\ do_smoothing' = (smooth_fwhm > 0)
    /\ gaussian_const1' = GaussianConst1(smooth_fwhm)
    /\ norm_fixel' = 0
    /\ smoothing_weights' = [f \in Fixels |-> EmptyRow]
    /\ UNCHANGED <<track_file, num_preloaded, loader_queue, mapper_item, mapper_queue,
                   acc, mutex, fixel_TDI, connectivity_matrix, track_input, optVars, notConnectivity,
                   subject_image, data, nans_in_data>>

\* one iteration of  for (uint32_t fixel = 0; fixel < num_fixels; ++fixel)
Normalise ==
    /\ phase = "normalise"
    /\ norm_fixel \in Fixels
    /\ connectivity_matrix' =
          [connectivity_matrix EXCEPT ![norm_fixel] =
              NormalisedRow(norm_fixel, @, fixel_TDI[norm_fixel], connectivity_threshold)]
    /\ smoothing_weights' =
          [smoothing_weights EXCEPT ![norm_fixel] =
              SmoothingRow(norm_fixel, connectivity_matrix[norm_fixel],
                           fixel_TDI[norm_fixel], connectivity_threshold,
                           do_smoothing, gaussian_const1)]
    /\ norm_fixel' = norm_fixel + 1
    /\ phase' = IF norm_fixel + 1 \in Fixels THEN "normalise" ELSE "normalised"
    /\ UNCHANGED <<track_file, num_preloaded, loader_queue, mapper_item, mapper_queue,
                   acc, mutex, fixel_TDI, track_input, optVars, notConnectivity, do_smoothing,
                   gaussian_const1, subject_image, data, nans_in_data>>

(***************************************************************************)
(* Loading and smoothing the subjects' data (run(), lines 380-412).        *)
(***************************************************************************)
NumSubjects == 1

\* the finite value a subject's image may hold at a fixel
DataValue(f) == Fin(f + 1, 1)

\* a subject's image: finite on some set of fixels, NaN elsewhere
SubjectImages ==
    { [f \in Fixels |-> IF f \in finite THEN DataValue(f) ELSE NaN] : finite \in SUBSET Fixels }

\* the loop over smoothing_weights[fixel]: <<value, sum_weights>>
RECURSIVE WeightedSums(_, _, _)
WeightedSums(column, weights, keys) ==
    IF keys = {} THEN <<Zero, Zero>>
    ELSE LET j == CHOOSE x \in keys : \A k \in keys : x >= k
             before == WeightedSums(column, weights, keys \ {j})
         IN  IF IsFinite(column[j])
             THEN << XAdd(before[1], XMul(column[j], weights[j])),
                     XAdd(before[2], weights[j]) >>
             ELSE before

\* (mutant) the neighbours averaged also where the fixel's own value is not finite
SmoothedValue_FromNeighbours(column, weights, fixel) ==
    LET sums == WeightedSums(column, weights[fixel], DOMAIN weights[fixel])
    IN  IF Truthy(sums[2]) THEN XDiv(sums[1], sums[2]) ELSE NaN

\* smoothed_data (fixel)
SmoothedValue(column, weights, fixel) ==
    IF IsFinite(column[fixel])
    THEN LET sums == WeightedSums(column, weights[fixel], DOMAIN weights[fixel])
         IN  IF Truthy(sums[2]) THEN XDiv(sums[1], sums[2]) ELSE NaN
    ELSE NaN

SmoothedColumn(column, weights) ==
    [fixel \in Fixels |-> SmoothedValue(column, weights, fixel)]

\* one iteration of  for (size_t subject = 0; subject < importer.size(); subject++)
LoadSubject ==
    /\ phase \in {"normalised", "smooth"}
    /\ Len(data) < NumSubjects
    /\ \E column \in SubjectImages :
          /\ subject_image' = Append(subject_image, column)
          /\ data' = Append(data, SmoothedColumn(column, smoothing_weights))
          /\ nans_in_data' =
                (nans_in_data \/
                    \E f \in Fixels : ~IsFinite(SmoothedColumn(column, smoothing_weights)[f]))
    /\ phase' = IF Len(data) + 1 < NumSubjects THEN "smooth" ELSE "smoothed"
    /\ UNCHANGED <<track_file, num_preloaded, loader_queue, mapper_item, mapper_queue,
                   acc, mutex, fixel_TDI, connectivity_matrix, track_input, optVars, notConnectivity,
                   do_smoothing, gaussian_const1, norm_fixel, smoothing_weights>>

(***************************************************************************)
(* The run from the start of the connectivity build to the smoothed data.  *)
(***************************************************************************)
InitConnectivity ==
    /\ InitBuild
    /\ connectivity_threshold \in ThresholdOptions
    /\ smooth_fwhm \in SmoothOptions
    /\ do_smoothing = FALSE
    /\ gaussian_const1 = One
    /\ norm_fixel = 0
    /\ smoothing_weights = [f \in Fixels |-> EmptyRow]
    /\ subject_image = << >>
    /\ data = << >>
    /\ nans_in_data = FALSE

NextConnectivity ==
    \/ NextBuild
    \/ BeginNormalise
    \/ Normalise
    \/ LoadSubject


\* the catalogue after mapping and after assignment to fixels, one entry per
\* streamline
RECURSIVE MappedUpTo(_)
MappedUpTo(n) ==
    IF n = 0 THEN << >> ELSE Append(MappedUpTo(n - 1), MapTrack(Catalogue[n]))

RECURSIVE VisitSetsUpTo(_)
VisitSetsUpTo(n) ==
    IF n = 0 THEN << >> ELSE Append(VisitSetsUpTo(n - 1), Range(VisitOf(n)))

MappedTable == MappedUpTo(Len(Catalogue))

VisitSets == VisitSetsUpTo(Len(Catalogue))

(***************************************************************************)
(* What the build must produce, as a function of the multiset of           *)
(* streamlines alone.                                                      *)
(***************************************************************************)
\* how many times streamline `id` occurs in the file
Multiplicity(id) ==
    Cardinality({ k \in DOMAIN track_input : track_input[k] = id })
        + (IF id = 1 THEN num_preloaded ELSE 0)

\* the sum of the values of a function with a finite domain
RECURSIVE SumFn(_)
SumFn(f) ==
    IF DOMAIN f = {} THEN 0
    ELSE LET x == CHOOSE x \in DOMAIN f : TRUE
         IN  f[x] + SumFn([k \in DOMAIN f \ {x} |-> f[k]])

\* streamlines assigned to fixel i
Through(i) ==
    SumFn([id \in TrackIds |->
              IF i \in VisitSets[id] THEN Multiplicity(id) ELSE 0])

\* streamlines assigned to both i and j
CoTraversals(i, j) ==
    SumFn([id \in TrackIds |->
              IF i # j /\ {i, j} \subseteq VisitSets[id]
              THEN Multiplicity(id) ELSE 0])

ExpectedTDI == [f \in Fixels |-> Through(f) % TDIModulus]

ExpectedMatrix ==
    [i \in Fixels |-> [j \in { g \in Fixels : CoTraversals(i, g) > 0 } |-> CoTraversals(i, j)]]

Min(a, b) == IF a <= b THEN a ELSE b

Symmetric(cm) == \A i, j \in Fixels : EdgeCount(cm, i, j) = EdgeCount(cm, j, i)

\* no commit is in progress
Quiescent == phase = "build" /\ mutex = 0

(***************************************************************************)
(* Claims about the connectivity build.                                    *)
(***************************************************************************)
\* C1: at every quiescent point of the build (no commit in progress) and at
\* the end of the build, edge[i][j].count = edge[j][i].count for all i, j.
C1_SymmetricWhenQuiescent ==
    (Quiescent \/ phase = "built") => Symmetric(connectivity_matrix)

\* C1 witness: a quiescent point in the middle of the build at which one
\* accumulator has committed a streamline of the window and another holds an
\* assigned streamline it has yet to commit.
C1_Witness ==
    /\ phase = "build"
    /\ Quiescent
    /\ \E i, j \in Fixels : EdgeCount(connectivity_matrix, i, j) > num_preloaded
    /\ \E w \in Accumulators : acc[w].pc = "assigned" /\ Len(acc[w].visit) >= 2

\* C2: the graph and the TDI at the end of the build are the function of the
\* multiset of streamlines given by ExpectedMatrix and ExpectedTDI, whatever
\* the order of the file and the interleaving of the threads.
C2_FinalGraphDeterministic ==
    phase = "built" =>
        /\ connectivity_matrix = ExpectedMatrix
        /\ fixel_TDI = ExpectedTDI

\* C2 witness: the build has ended on a file of two different streamlines
\* that share a fixel.
C2_Witness ==
    /\ phase = "built"
    /\ Len(track_input) >= 2
    /\ track_input[1] # track_input[2]
    /\ \E f \in Fixels : fixel_TDI[f] = num_preloaded + 2

\* C3 (as claimed): after the build, edge[i][j] <= min(TDI[i], TDI[j]).
C3_EdgeBoundedByTDI ==
    phase = "built" =>
        \A i, j \in Fixels :
            EdgeCount(connectivity_matrix, i, j) <= Min(fixel_TDI[i], fixel_TDI[j])

\* C3, where the claim does hold: as long as fewer than 2^16 streamlines pass
\* through every fixel.
C3_EdgeBoundedBelowWrap ==
    (phase = "built" /\ \A f \in Fixels : Through(f) < TDIModulus) =>
        \A i, j \in Fixels :
            EdgeCount(connectivity_matrix, i, j) <= Min(fixel_TDI[i], fixel_TDI[j])

(***************************************************************************)
(* Claims about the normalisation and the smoothing.                       *)
(***************************************************************************)
\* the normalisation loop has run over every fixel
Normalised == phase \in {"normalised", "smooth", "smoothed"}

\* the subjects whose data have been loaded and smoothed
Loaded == DOMAIN data

\* the neighbours of fixel i in the smoothing graph whose input value is finite
FiniteNeighbours(s, i) ==
    { j \in DOMAIN smoothing_weights[i] : IsFinite(subject_image[s][j]) }

\* the sum of the values of a function: NaN and the infinities included
RECURSIVE XSumFn(_)
XSumFn(f) ==
    IF DOMAIN f = {} THEN Zero
    ELSE LET x == CHOOSE x \in DOMAIN f : TRUE
         IN  XAdd(f[x], XSumFn([k \in DOMAIN f \ {x} |-> f[k]]))

\* the weight-normalised sum over the finite neighbours
WeightedMean(s, i) ==
    XDiv(XSumFn([j \in FiniteNeighbours(s, i) |->
                    XMul(smoothing_weights[i][j], subject_image[s][j])]),
         XSumFn([j \in FiniteNeighbours(s, i) |-> smoothing_weights[i][j]]))

FiniteWeights(i) == \A j \in DOMAIN smoothing_weights[i] : IsFinite(smoothing_weights[i][j])

\* C4 (as claimed): y'[i] is NaN if and only if no j of smooth[i], the
\* self-term included, has a finite y[j].  Stated for the rows whose weights
\* are all finite, where the smoothing has nothing else to go wrong.
C4_NaNIffNoFiniteNeighbour ==
    \A s \in Loaded : \A i \in Fixels :
        FiniteWeights(i) =>
            (IsNaN(data[s][i]) <=> FiniteNeighbours(s, i) = {})

\* C4 (amended): y'[i] is NaN whenever y[i] is not finite, whatever its
\* neighbours hold; when y[i] is finite y'[i] is the weight-normalised sum
\* over the j of smooth[i] with a finite y[j], and it is finite when the
\* weights of smooth[i] are.
C4_NaNWhereInputNotFinite ==
    \A s \in Loaded : \A i \in Fixels :
        /\ ~IsFinite(subject_image[s][i]) => IsNaN(data[s][i])
        /\ IsFinite(subject_image[s][i]) => data[s][i] = WeightedMean(s, i)
        /\ (IsFinite(subject_image[s][i]) /\ FiniteWeights(i)) => IsFinite(data[s][i])

\* C4 witness: a subject has been smoothed in which one fixel has no finite
\* value but a neighbour with one, and another fixel with a finite value has
\* a neighbour without.
C4_Witness ==
    \E s \in Loaded : \E i, j \in Fixels :
        /\ i # j
        /\ j \in DOMAIN smoothing_weights[i]
        /\ i \in DOMAIN smoothing_weights[j]
        /\ FiniteWeights(i) /\ FiniteWeights(j)
        /\ ~IsFinite(subject_image[s][i])
        /\ IsFinite(subject_image[s][j])
        /\ IsNaN(data[s][i])
        /\ IsFinite(data[s][j])

\* C5 (as claimed): after normalisation every smoothing row holds the
\* self-term and its weights sum to 1.
C5_SmoothingRowSumsToOne ==
    Normalised =>
        \A i \in Fixels :
            /\ i \in DOMAIN smoothing_weights[i]
            /\ SumValues(smoothing_weights[i], DOMAIN smoothing_weights[i]) = One

\* C5, where the claim does hold: as long as fewer than 2^16 streamlines
\* pass through every fixel.
C5_SumsToOneBelowWrap ==
    (Normalised /\ \A f \in Fixels : Through(f) < TDIModulus) =>
        \A i \in Fixels :
            /\ i \in DOMAIN smoothing_weights[i]
            /\ SumValues(smoothing_weights[i], DOMAIN smoothing_weights[i]) = One

\* C6: with a smoothing FWHM of 0 every smoothing row is the self-edge alone,
\* of weight 1, and every finite input value is its own smoothed value.
C6_NoSmoothingIsIdentity ==
    (Normalised /\ smooth_fwhm = 0) =>
        /\ \A i \in Fixels : smoothing_weights[i] = (i :> One)
        /\ \A s \in Loaded : \A i \in Fixels :
              IsFinite(subject_image[s][i]) => data[s][i] = subject_image[s][i]

\* C6 witness: smoothing is off, the graph has an edge between two fixels
\* that survived the threshold, and a subject with different finite values at
\* the two has been loaded.
C6_Witness ==
    /\ phase = "smoothed"
    /\ smooth_fwhm = 0
    /\ \E s \in Loaded : \E i, j \in Fixels :
          /\ i # j
          /\ j \in DOMAIN connectivity_matrix[i]
          /\ IsFinite(subject_image[s][i])
          /\ IsFinite(subject_image[s][j])
          /\ subject_image[s][i] # subject_image[s][j]
          /\ data[s][i] = subject_image[s][i]

(***************************************************************************)
(* The fixed-design t-test: GLMTTest (lib/math/stats/glm.h).               *)
(* Matrices are sequences of rows of extended rationals.  A t-value is     *)
(* carried by its signed square, sign(t) * t^2, so that the square roots   *)
(* of scale_contrasts and of norm() stay exact.                            *)
(***************************************************************************)
GLM_BATCH_SIZE == 1024

NumRows(M) == Len(M)
NumCols(M) == IF Len(M) = 0 THEN 0 ELSE Len(M[1])
Column(M, c) == [r \in 1..NumRows(M) |-> M[r][c]]
Transpose(M) == [c \in 1..NumCols(M) |-> Column(M, c)]

RECURSIVE DotUpTo(_, _, _)
DotUpTo(u, v, k) ==
    IF k = 0 THEN Zero ELSE XAdd(DotUpTo(u, v, k - 1), XMul(u[k], v[k]))

Dot(u, v) == DotUpTo(u, v, Len(u))

MatMul(A, B) ==
    [r \in 1..NumRows(A) |-> [c \in 1..NumCols(B) |-> Dot(A[r], Column(B, c))]]

Det2(M) == XSub(XMul(M[1][1], M[2][2]), XMul(M[1][2], M[2][1]))

\* inverse of a non-singular 2 x 2 matrix
Inverse2(M) ==
    LET d == Det2(M)
    IN  << <<XDiv(M[2][2], d), XNeg(XDiv(M[1][2], d))>>,
           <<XNeg(XDiv(M[2][1], d)), XDiv(M[1][1], d)>> >>

\* Math::pinv of a design of full column rank: (X^T X)^-1 X^T; of a
\* non-singular square matrix: its inverse
Pinv(M) ==
    IF NumRows(M) = NumCols(M) THEN Inverse2(M)
    ELSE MatMul(Inverse2(MatMul(Transpose(M), M)), Transpose(M))

\* Math::rank of a two-column design
Rank(M) ==
    IF Det2(MatMul(Transpose(M), M)) # Zero THEN 2
    ELSE IF \A r \in 1..NumRows(M) : \A c \in 1..NumCols(M) : M[r][c] = Zero THEN 0
    ELSE 1

\* GLM::scale_contrasts for one contrast row: the row, and the square of the
\* factor sqrt(df / (c . pinv(X^T X) . c^T)) every entry is multiplied by
scale_contrasts(contrast, design, degrees_of_freedom) ==
    LET XtX == Pinv(MatMul(Transpose(design), design))
        pinv_XtX_c == [r \in 1..NumRows(XtX) |-> Dot(XtX[r], contrast)]
    IN  [row    |-> contrast,
         factor2 |-> XDiv(Fin(degrees_of_freedom, 1), Dot(contrast, pinv_XtX_c))]

\* sign(a) * a^2
SignedSquare(a) == IF XLess(a, Zero) THEN XNeg(XMul(a, a)) ELSE XMul(a, a)

\* GLM::ttest for one row of measurements; design and pinv_design are the
\* transposed matrices operator() passes
ttest(design, pinv_design, measurements, contrasts) ==
    LET betas     == [k \in 1..NumCols(pinv_design) |->
                         Dot(measurements, Column(pinv_design, k))]
        residuals == [s \in 1..NumCols(design) |->
                         XSub(measurements[s], Dot(betas, Column(design, s)))]
        tvalue    == Dot(betas, contrasts.row)
    IN  XDiv(XMul(SignedSquare(tvalue), contrasts.factor2), Dot(residuals, residuals))

\* SX.row(i) = X.row (perm_labelling[i])
PermutedRows(M, labelling) == [i \in 1..NumRows(M) |-> M[labelling[i] + 1]]

\* the labelling that leaves every column of the pseudo-inverse where it is
PermutedColumns_Unpermuted(M, labelling) == M

\* pinvSX.col(i) = pinvX.col (perm_labelling[i])
PermutedColumns(M, labelling) ==
    [r \in 1..NumRows(M) |-> [i \in 1..NumCols(M) |-> M[r][labelling[i] + 1]]]

(***************************************************************************)
(* The inputs of the t-test.                                               *)
(***************************************************************************)
\* element counts tried: 1..SmallElements, one full batch, and a full batch
\* plus ExtraRows
SmallElements == 2
ExtraRows == 1
ElementCounts ==
    (1..SmallElements) \cup {GLM_BATCH_SIZE, GLM_BATCH_SIZE + ExtraRows}

IntRow(r) == [k \in 1..Len(r) |-> Fin(r[k], 1)]
IntMatrix(M) == [r \in 1..Len(M) |-> IntRow(M[r])]

\* an intercept and a covariate over three subjects; two groups of two subjects
Designs ==
    { IntMatrix(<< <<1, 0>>, <<1, 1>>, <<1, 2>> >>),
      IntMatrix(<< <<1, 0>>, <<1, 0>>, <<0, 1>>, <<0, 1>> >>) }

Contrasts == { IntRow(<<1, -1>>), IntRow(<<0, 1>>), IntRow(<<0, 0>>) }

\* one row of measurements over n subjects
RowKinds == {"ramp", "zigzag", "flat"}
MeasurementRow(kind, n) ==
    CASE kind = "ramp"   -> [s \in 1..n |-> Fin(s, 1)]
      [] kind = "zigzag" -> [s \in 1..n |-> Fin((s * s) % 5, 1)]
      [] kind = "flat"   -> [s \in 1..n |-> Zero]

\* the permutations of the subjects, labels counted from 0
Labellings(n) ==
    { p \in [1..n -> 0..(n - 1)] : \A a, b \in 1..n : p[a] = p[b] => a = b }

\* the extreme statistics the caller hands in
StatSeeds == { <<Inf(-1), Inf(1)>>, <<Zero, Zero>> }

\* what a row read from beyond the end of the measurements may yield
StrayTValues == { NaN, Fin(7, 1) }

\* the greatest / least of a non-empty finite set of values without NaN
XMax(S) == CHOOSE m \in S : \A x \in S : ~XLess(m, x)
XMin(S) == CHOOSE m \in S : \A x \in S : ~XLess(x, m)

\* after the constructor: y, X, scaled_contrasts and pinvX are set
InitGLM ==
    /\ X \in Designs
    /\ \E contrast \in Contrasts :
          scaled_contrasts = scale_contrasts(contrast, X, NumRows(X) - Rank(X))
    /\ pinvX = Pinv(X)
    /\ \E n \in ElementCounts : \E kinds \in RowKinds \X RowKinds :
          y = [f \in 0..(n - 1) |-> MeasurementRow(kinds[(f % 2) + 1], NumRows(X))]
    /\ perm_labelling \in Labellings(NumRows(X))
    /\ caller_stat \in StatSeeds
    /\ max_stat = caller_stat[1]
    /\ min_stat = caller_stat[2]
    /\ stats = << >>
    /\ SX = << >>
    /\ pinvSX = << >>
    /\ batch_i = 0
    /\ heap_overrun = FALSE
    /\ glm_pc = "start"

NumElements == Cardinality(DOMAIN y)

\* operator(), up to the batch loop: resize stats, build SX and pinvSX
GLMPermute ==
    /\ glm_pc = "start"
    /\ stats' = [f \in 0..(NumElements - 1) |-> Zero]
    /\ SX' = Transpose(PermutedRows(X, perm_labelling))
    /\ pinvSX' = Transpose(PermutedColumns(pinvX, perm_labelling))
    /\ batch_i' = 0
    /\ glm_pc' = "loop"
    /\ UNCHANGED <<y, X, pinvX, scaled_contrasts, perm_labelling, max_stat, min_stat,
                   heap_overrun, caller_stat, notGLM>>

\* the number of rows y.block() is asked for: std::min (i+GLM_BATCH_SIZE, y.rows())
BlockRows(i) == IF i + GLM_BATCH_SIZE < NumElements THEN i + GLM_BATCH_SIZE ELSE NumElements

\* float val = tvalues(n,0); if (!std::isfinite (val)) val = float(0.0);
StoredValue(val) == IF IsFinite(val) THEN val ELSE Zero

\* GLM::ttest on the distinct rows among the given measurements: the set of
\* pairs <<row, t-value>>
BatchTValues(rows) ==
    { <<r, ttest(SX, pinvSX, r, scaled_contrasts)>> : r \in rows }

TValueOf(table, r) == (CHOOSE p \in table : p[1] = r)[2]

\* (mutant) the values demoted to 0 compared with max_stat and min_stat too
TrackedValues_WithDemoted(tvalues) == { StoredValue(t) : t \in tvalues }

\* the values compared with max_stat and min_stat:  if (std::isfinite (val))
TrackedValues(tvalues) == { t \in tvalues : IsFinite(t) }

\* the loop over tvalues: max_stat and min_stat, stats[i+n]; strays holds
\* the t-values of the rows of the block that lie beyond the end of y
StoreBatch(table, rows, strays) ==
    LET finite == TrackedValues({ p[2] : p \in table } \cup strays)
        last   == batch_i + rows - 1
    IN  /\ max_stat' = XMax(finite \cup {max_stat})
        /\ min_stat' = XMin(finite \cup {min_stat})
        /\ stats' = [f \in 0..(NumElements - 1) |->
                        IF batch_i <= f /\ f <= last
                        THEN StoredValue(TValueOf(table, y[f]))
                        ELSE stats[f]]
        /\ heap_overrun' = (heap_overrun \/ last >= NumElements)

\* one iteration of the batch loop
GLMBatch ==
    /\ glm_pc = "loop"
    /\ batch_i < NumElements
    /\ LET rows  == BlockRows(batch_i)
           table == BatchTValues({ y[f] : f \in batch_i..(NumElements - 1) })
       IN  IF batch_i + rows <= NumElements
           THEN /\ StoreBatch(table, rows, {})
                /\ batch_i' = batch_i + GLM_BATCH_SIZE
                /\ glm_pc' = "loop"
           ELSE \* the block runs past the last row of y: an Eigen assertion
                \* stops the program, or the rows beyond are read and written
                \/ /\ glm_pc' = "aborted"
                   /\ UNCHANGED <<stats, max_stat, min_stat, batch_i, heap_overrun>>
                \/ /\ \E stray \in StrayTValues : StoreBatch(table, rows, {stray})
                   /\ batch_i' = batch_i + GLM_BATCH_SIZE
                   /\ glm_pc' = "loop"
    /\ UNCHANGED <<y, X, pinvX, scaled_contrasts, perm_labelling, SX, pinvSX,
                   caller_stat, notGLM>>

\* the loop condition fails: operator() returns
GLMReturn ==
    /\ glm_pc = "loop"
    /\ batch_i >= NumElements
    /\ glm_pc' = "returned"
    /\ UNCHANGED <<y, X, pinvX, scaled_contrasts, perm_labelling, stats, max_stat,
                   min_stat, SX, pinvSX, batch_i, heap_overrun, caller_stat, notGLM>>

NextGLM == GLMPermute \/ GLMBatch \/ GLMReturn

(***************************************************************************)
(* statistic2pvalue (src/stats/permute.h).  Statistics are integers; the   *)
(* value assigned is an exact fraction.                                    *)
(***************************************************************************)
MaxPerms == 3
NumImageVoxels == 2
ImageVoxels == 1..NumImageVoxels

PermValues == {1, 2, 3}
StatValues == {-1, 0, 1, 2, 3, 4}

PermDists == UNION { [1..n -> PermValues] : n \in 1..MaxPerms }

\* std::sort: insert v into an ascending sequence
RECURSIVE InsertSorted(_, _)
InsertSorted(sorted, v) ==
    IF sorted = << >> THEN <<v>>
    ELSE IF v <= Head(sorted) THEN <<v>> \o sorted
    ELSE <<Head(sorted)>> \o InsertSorted(Tail(sorted), v)

RECURSIVE SortAscending(_)
SortAscending(seq) ==
    IF seq = << >> THEN << >>
    ELSE InsertSorted(SortAscending(Tail(seq)), Head(seq))

\* the inner loop: the first i with tvalue < permutations[i], counted from 0;
\* Len(sorted) when the loop runs to its end
RECURSIVE FirstGreater(_, _, _)
FirstGreater(tvalue, sorted, i) ==
    IF i >= Len(sorted) THEN Len(sorted)
    ELSE IF tvalue < sorted[i + 1] THEN i
    ELSE FirstGreater(tvalue, sorted, i + 1)

\* one minus what the loop body assigns
PValue_Complement(tvalue, sorted) ==
    LET i == FirstGreater(tvalue, sorted, 0)
    IN  IF tvalue > 0
        THEN IF i < Len(sorted) THEN XSub(One, Fin(i, Len(sorted))) ELSE Zero
        ELSE One

\* the body of the loop over the voxels: the value assigned to p_voxel
PValue(tvalue, sorted) ==
    LET i == FirstGreater(tvalue, sorted, 0)
    IN  IF tvalue > 0
        THEN IF i < Len(sorted) THEN Fin(i, Len(sorted)) ELSE One
        ELSE Zero

InitPvalue ==
    /\ pv_pc = "start"
    /\ perm_dist \in PermDists
    /\ permutations = << >>
    /\ stat_voxel \in [ImageVoxels -> StatValues]
    /\ p_voxel = [v \in ImageVoxels |-> Zero]
    /\ outer = 1

\* copy perm_dist and sort it
SortPermutations ==
    /\ pv_pc = "start"
    /\ permutations' = SortAscending(perm_dist)
    /\ pv_pc' = "loop"
    /\ UNCHANGED <<perm_dist, stat_voxel, p_voxel, outer, notPvalue>>

\* one voxel of the loop
AssignPvalue ==
    /\ pv_pc = "loop"
    /\ outer \in ImageVoxels
    /\ p_voxel' = [p_voxel EXCEPT ![outer] = PValue(stat_voxel[outer], permutations)]
    /\ outer' = outer + 1
    /\ UNCHANGED <<pv_pc, perm_dist, permutations, stat_voxel, notPvalue>>

\* outer.ok() fails
PvalueDone ==
    /\ pv_pc = "loop"
    /\ outer \notin ImageVoxels
    /\ pv_pc' = "done"
    /\ UNCHANGED <<perm_dist, permutations, stat_voxel, p_voxel, outer, notPvalue>>

NextPvalue == SortPermutations \/ AssignPvalue \/ PvalueDone

(***************************************************************************)
(* Properties of the fixed-design t-test.                                  *)
(***************************************************************************)
\* SX and pinvSX have been built
SXBuilt == glm_pc \in {"loop", "returned", "aborted"}

IdentityLabelling(n) == [i \in 1..n |-> i - 1]

\* least squares of one row of measurements on a two-column design, by
\* Cramer's rule on the normal equations (X^T X) b = X^T y
DirectBetas(design, row) ==
    LET G == MatMul(Transpose(design), design)
        b == [k \in 1..2 |-> Dot(Column(design, k), row)]
    IN  << XDiv(XSub(XMul(b[1], G[2][2]), XMul(G[1][2], b[2])), Det2(G)),
           XDiv(XSub(XMul(G[1][1], b[2]), XMul(b[1], G[2][1])), Det2(G)) >>

\* the signed square of the t-value of contrast c: (c.b)^2 df / (c G^-1 c^T) / rss
DirectT(design, row, c) ==
    LET G    == MatMul(Transpose(design), design)
        beta == DirectBetas(design, row)
        res  == [s \in 1..NumRows(design) |-> XSub(row[s], Dot(design[s], beta))]
        cGc  == Dot(c, [r \in 1..2 |-> Dot(Inverse2(G)[r], c)])
        df   == Fin(NumRows(design) - 2, 1)
    IN  XDiv(XMul(SignedSquare(Dot(beta, c)), XDiv(df, cGc)), Dot(res, res))

\* C7: for every permutation of the subjects, row i of SX is row pi(i) of X
\* and the subject axis of pinvSX is permuted by the same map, so that
\* pinvSX . SX = pinv(X) . X; under the identity SX = X and pinvSX = pinv(X);
\* the t-values returned are those of direct least squares on (SX, Y), which
\* is (X, Y) under the identity.
C7_ConsistentPermutation ==
    SXBuilt =>
        /\ Transpose(SX) = PermutedRows(X, perm_labelling)
        /\ MatMul(Transpose(pinvSX), Transpose(SX)) = MatMul(pinvX, X)
        /\ perm_labelling = IdentityLabelling(NumRows(X)) =>
              (Transpose(SX) = X /\ Transpose(pinvSX) = pinvX)
        /\ (glm_pc = "returned" /\ ~heap_overrun) =>
              \A r \in { y[f] : f \in DOMAIN y } :
                  LET direct == StoredValue(DirectT(Transpose(SX), r, scaled_contrasts.row))
                  IN  \A f \in DOMAIN y : y[f] = r => stats[f] = direct

\* C7 witness: the test has returned under a permutation that is neither the
\* identity nor its own inverse, with a finite non-zero t-value
C7_Witness ==
    /\ glm_pc = "returned"
    /\ ~heap_overrun
    /\ \E i \in 1..NumRows(X) : perm_labelling[perm_labelling[i] + 1] # i - 1
    /\ \E f \in DOMAIN stats : stats[f] # Zero

\* C8 (as claimed): the test completes without an error for every fixel and
\* every entry of the vector it returns is finite
C8_FiniteAndCompletes ==
    /\ glm_pc # "aborted"
    /\ ~heap_overrun
    /\ glm_pc = "returned" => \A f \in DOMAIN stats : IsFinite(stats[f])

\* the same holds while the measurements fit in one batch
C8_FiniteWithinOneBatch ==
    (SXBuilt /\ NumElements <= GLM_BATCH_SIZE) => C8_FiniteAndCompletes

\* a non-finite t-value has been stored as 0 by a test that returned
C8_DemotedToZero ==
    /\ glm_pc = "returned"
    /\ \E f \in DOMAIN y :
          /\ ~IsFinite(ttest(SX, pinvSX, y[f], scaled_contrasts))
          /\ stats[f] = Zero

(***************************************************************************)
(* Properties of statistic2pvalue.                                         *)
(***************************************************************************)
\* the voxels the loop has been through
Assigned == IF pv_pc \in {"loop", "done"} THEN { v \in ImageVoxels : v < outer } ELSE {}

num_perms == Len(perm_dist)

\* some / no maximum of the permutations is strictly greater than t
SomeGreater(t) == \E k \in 1..num_perms : perm_dist[k] > t
AboveAll(t) == \A k \in 1..num_perms : perm_dist[k] < t

\* the number of permutation maxima that are not greater than t: the
\* position, counted from 0, of the smallest one strictly greater than t in
\* the ascending distribution
NotGreater(t) == Cardinality({ k \in 1..num_perms : perm_dist[k] <= t })

\* C9 (as claimed): for t_obs > 0 with a permutation maximum strictly
\* greater, the value assigned is 1 - r/num_perms, r the rank of the smallest
\* permutation maximum strictly greater than t_obs (counted from 0 or from 1)
C9_OneMinusRank ==
    \A v \in Assigned :
        (stat_voxel[v] > 0 /\ SomeGreater(stat_voxel[v])) =>
            \/ p_voxel[v] = XSub(One, Fin(NotGreater(stat_voxel[v]), num_perms))
            \/ p_voxel[v] = XSub(One, Fin(NotGreater(stat_voxel[v]) + 1, num_perms))

\* C9 (amended): for t_obs > 0 with a permutation maximum strictly greater,
\* the value assigned is r/num_perms, r the number of permutation maxima
\* that are not greater than t_obs
C9_RankOverPerms ==
    \A v \in Assigned :
        (stat_voxel[v] > 0 /\ SomeGreater(stat_voxel[v])) =>
            p_voxel[v] = Fin(NotGreater(stat_voxel[v]), num_perms)

\* C9 witness: a voxel with a positive statistic lying between two values of
\* a distribution that was handed in out of order has been assigned
C9_Witness ==
    /\ perm_dist # SortAscending(perm_dist)
    /\ \E v \in Assigned :
          /\ stat_voxel[v] > 0
          /\ SomeGreater(stat_voxel[v])
          /\ NotGreater(stat_voxel[v]) >= 1
          /\ p_voxel[v] = Fin(NotGreater(stat_voxel[v]), num_perms)

\* C10 (as claimed): for t_obs above every permutation maximum the value
\* assigned is not zero and of the order of 1/num_perms
C10_OrderOfOneOverPerms ==
    \A v \in Assigned :
        AboveAll(stat_voxel[v]) =>
            /\ p_voxel[v] # Zero
            /\ ~XLess(Fin(1, num_perms), p_voxel[v])

\* C10 (amended): for t_obs above every permutation maximum the value
\* assigned is exactly 1, whatever the number of permutations
C10_OneAboveAll ==
    \A v \in Assigned : AboveAll(stat_voxel[v]) => p_voxel[v] = One

\* C10 witness: a voxel above a distribution of more than one permutation
\* has been assigned
C10_Witness ==
    /\ num_perms >= 2
    /\ \E v \in Assigned : AboveAll(stat_voxel[v]) /\ p_voxel[v] = One

(***************************************************************************)
(* The generation of the permutations.  The duplicate test is              *)
(* is_duplicate_permutation of src/stats/permute.h; the loop that draws    *)
(* and accepts is not in the sources at hand and follows the description   *)
(* of the permutation engine.                                              *)
(***************************************************************************)
MaxRequested == 7

\* the numbers of subjects tried
GenSubjects == {2, 3}

RECURSIVE Factorial(_)
Factorial(n) == IF n <= 1 THEN 1 ELSE n * Factorial(n - 1)

\* is_duplicate_vector: the loop over i < v1.size()
RECURSIVE DuplicateFrom(_, _, _)
DuplicateFrom(v1, v2, i) ==
    IF i >= Len(v1) THEN TRUE
    ELSE IF v1[i + 1] # v2[i + 1] THEN FALSE
    ELSE DuplicateFrom(v1, v2, i + 1)

is_duplicate_vector(v1, v2) == DuplicateFrom(v1, v2, 0)

\* a test that lets every candidate through
is_duplicate_permutation_Never(perm, previous_permutations) == FALSE

\* is_duplicate_permutation: the loop over p < previous_permutations.size()
is_duplicate_permutation(perm, previous_permutations) ==
    \E p \in 1..Len(previous_permutations) :
        is_duplicate_vector(perm, previous_permutations[p])

\* a request that is never found too large
SpaceExhausted_Never(requested, subjects) == FALSE

\* the request cannot be met from the S! permutations of the subjects
SpaceExhausted(requested, subjects) == requested > Factorial(subjects)

InitGenerate ==
    /\ gen_pc = "start"
    /\ gen_subjects \in GenSubjects
    /\ gen_requested \in 1..MaxRequested
    /\ perm_stack = << >>
    /\ permuted_labelling = << >>

\* after a permutation has been accepted
AfterAccept(stack) == IF Len(stack) >= gen_requested THEN "done" ELSE "draw"

\* the request is checked against S!; the identity is the first permutation
GenStart ==
    /\ gen_pc = "start"
    /\ IF SpaceExhausted(gen_requested, gen_subjects)
       THEN /\ gen_pc' = "failed"
            /\ UNCHANGED perm_stack
       ELSE /\ perm_stack' = <<IdentityLabelling(gen_subjects)>>
            /\ gen_pc' = AfterAccept(perm_stack')
    /\ UNCHANGED <<gen_subjects, gen_requested, permuted_labelling, notGen>>

\* a candidate is drawn among the S! permutations
GenDraw ==
    /\ gen_pc = "draw"
    /\ permuted_labelling' \in Labellings(gen_subjects)
    /\ gen_pc' = "test"
    /\ UNCHANGED <<gen_subjects, gen_requested, perm_stack, notGen>>

\* the candidate equals an accepted permutation: draw again
GenReject ==
    /\ gen_pc = "test"
    /\ is_duplicate_permutation(permuted_labelling, perm_stack)
    /\ gen_pc' = "draw"
    /\ UNCHANGED <<gen_subjects, gen_requested, perm_stack, permuted_labelling, notGen>>

\* the candidate is new: it is accepted
GenAccept ==
    /\ gen_pc = "test"
    /\ ~is_duplicate_permutation(permuted_labelling, perm_stack)
    /\ perm_stack' = Append(perm_stack, permuted_labelling)
    /\ gen_pc' = AfterAccept(perm_stack')
    /\ UNCHANGED <<gen_subjects, gen_requested, permuted_labelling, notGen>>

NextGenerate == GenStart \/ GenDraw \/ GenReject \/ GenAccept

\* a draw that yields a permutation not accepted before: a uniform draw
\* yields one with probability 1 while one is left
GenDrawFresh ==
    /\ GenDraw
    /\ ~is_duplicate_permutation(permuted_labelling', perm_stack)

GenerateAtRest ==
    /\ gen_pc = "rest"
    /\ gen_subjects = 0
    /\ gen_requested = 0
    /\ perm_stack = << >>
    /\ permuted_labelling = << >>

(***************************************************************************)
(* Properties of the generation of the permutations.                       *)
(***************************************************************************)
\* p is a bijection of [0, n)
IsBijection(p, n) ==
    /\ Len(p) = n
    /\ \A i \in 1..n : p[i] \in 0..(n - 1)
    /\ \A i, j \in 1..n : p[i] = p[j] => i = j

\* C11: in the list of accepted permutations the first is the identity,
\* every one is a bijection of [0, S) and no two are equal; a candidate
\* equal to an accepted permutation, the identity included, is not accepted.
C11_DistinctBijections ==
    /\ perm_stack # << >> => perm_stack[1] = IdentityLabelling(gen_subjects)
    /\ \A a \in 1..Len(perm_stack) : IsBijection(perm_stack[a], gen_subjects)
    /\ \A a, b \in 1..Len(perm_stack) : perm_stack[a] = perm_stack[b] => a = b

\* C11 witness: the identity was drawn again and rejected, and the list then
\* grew to hold every permutation of three subjects
C11_Witness ==
    /\ gen_pc = "done"
    /\ gen_subjects = 3
    /\ Len(perm_stack) = Factorial(gen_subjects)
    /\ perm_stack[1] = IdentityLabelling(gen_subjects)

MaxShape == 2
ShapeSizes == 1..MaxShape

\* if (num_tracks < 1000000)
WarnBelow == 1000000

\* the "count" property of the track file: absent, or a number
TrackCounts == {0, 1, WarnBelow - 1, WarnBelow}

RunInputs ==
    [ subjects_match : BOOLEAN,         \* every subject image matches the template
      num_files      : ShapeSizes,       \* importer.size()
      design_rows    : ShapeSizes,
      design_cols    : ShapeSizes,
      perm_rows      : {0} \cup ShapeSizes,   \* permutations[0].size(); 0: no -permutations
      contrast_rows  : ShapeSizes,
      contrast_cols  : ShapeSizes,
      has_count      : BOOLEAN,
      count          : TrackCounts ]

InitRun ==
    /\ run_pc = "copy"
    /\ run_output = {}
    /\ run_input \in { i \in RunInputs : ~i.has_count => i.count = 0 }
    /\ run_error = ""
    /\ run_warned = FALSE
    /\ run_started = {}
    /\ run_overrun = FALSE

\* Fixel::copy_index_and_directions_file (input_fixel_directory,
\* output_fixel_directory): the output directory is created if absent and the
\* index and directions images of the template are copied into it
TemplateCopy == {"index.mif", "directions.mif"}

CopyIndexAndDirections ==
    /\ run_pc = "copy"
    /\ run_output' = run_output \cup TemplateCopy
    /\ run_pc' = "subjects"
    /\ UNCHANGED <<run_input, run_error, run_warned, run_started, run_overrun, notRun>>

\* throw Exception (...)
Throw(message) ==
    /\ run_error' = message
    /\ run_pc' = "failed"

\* a check of run(): throws, or goes on to the next step
Check(at, failed, message, next) ==
    /\ run_pc = at
    /\ IF failed
       THEN Throw(message)
       ELSE run_pc' = next /\ UNCHANGED run_error
    /\ UNCHANGED <<run_input, run_warned, run_started, run_overrun, run_output, notRun>>

CheckSubjects ==
    Check("subjects", ~run_input.subjects_match,
          "does not match template fixel image", "design")

CheckDesign ==
    Check("design", run_input.design_rows # run_input.num_files,
          "number of input files does not match number of rows in design matrix",
          "permutations")

CheckPermutations ==
    Check("permutations",
          run_input.perm_rows # 0 /\ run_input.perm_rows # run_input.design_rows,
          "number of rows in the permutations file does not match number of rows in design matrix",
          "contrast")

\* no -column option: extra_columns is empty
CheckContrast ==
    Check("contrast", run_input.contrast_cols # run_input.design_cols,
          "the number of columns per contrast does not equal the number of columns in the design matrix",
          "tracks")

\* num_tracks = properties["count"].empty() ? 0 : to<int> (properties["count"])
NumTracks(input) == IF input.has_count THEN input.count ELSE 0

\* a file that is never found empty
NoTracks_Never(num_tracks) == FALSE

\* if (!num_tracks)
NoTracks(num_tracks) == num_tracks = 0

CheckTracks ==
    /\ run_pc = "tracks"
    /\ IF NoTracks(NumTracks(run_input))
       THEN Throw("no tracks found in input file") /\ UNCHANGED run_warned
       ELSE /\ run_warned' = (NumTracks(run_input) < WarnBelow)
            /\ run_pc' = "build"
            /\ UNCHANGED run_error
    /\ UNCHANGED <<run_input, run_started, run_overrun, run_output, notRun>>

\* a phase of computation starts and runs to its end
Phase(at, next) ==
    /\ run_pc = at
    /\ run_started' = run_started \cup {at}
    /\ run_pc' = next
    /\ UNCHANGED <<run_input, run_error, run_warned, run_overrun, run_output, notRun>>

RunBuild == Phase("build", "normalise")
RunNormalise == Phase("normalise", "smooth")
RunSmooth == Phase("smooth", "glm")

\* GLM::scale_contrasts: if (scaled_contrasts.cols() > 1 && scaled_contrasts.rows() > 1)
TooManyColumns(rows, cols) == cols > 1 /\ rows > 1

\* GLM::scale_contrasts, the loop over n < contrasts.rows(): XtX (P x P) is
\* multiplied by the transpose of row n of the contrasts as they were handed
\* in, and row n of scaled_contrasts, which holds one row once a column has
\* been transposed, is scaled
LoopWithinRange(rows, cols, design_cols) ==
    /\ cols = design_cols
    /\ \A n \in 0..(rows - 1) : n < 1

\* the test is constructed: the contrasts are scaled
ConstructTest ==
    /\ run_pc = "glm"
    /\ run_started' = run_started \cup {"glm"}
    /\ LET rows == run_input.contrast_rows
           cols == run_input.contrast_cols
       IN  IF TooManyColumns(rows, cols)
           THEN /\ Throw("too many columns in contrast matrix")
                /\ UNCHANGED run_overrun
           ELSE IF LoopWithinRange(rows, cols, run_input.design_cols)
           THEN /\ run_pc' = "permute"
                /\ UNCHANGED <<run_error, run_overrun>>
           ELSE \* a row that does not exist is used: an Eigen assertion stops
                \* the program, or the memory beyond the matrix is used
                \/ /\ run_pc' = "aborted"
                   /\ UNCHANGED <<run_error, run_overrun>>
                \/ /\ run_pc' = "permute"
                   /\ run_overrun' = TRUE
                   /\ UNCHANGED run_error
    /\ UNCHANGED <<run_input, run_warned, run_output, notRun>>

\* the images and the text files run() writes from line 519 on
Statistics == {"beta", "abs_effect", "std_effect", "std_dev", "cfe", "tvalue",
               "fwe_pvalue", "uncorrected_pvalue", "perm_dist"}

\* the statistics of the default permutation, the permutations and the
\* p-values, each written to the output directory
RunPermutations ==
    /\ run_pc = "permute"
    /\ run_started' = run_started \cup {"permute"}
    /\ run_output' = run_output \cup Statistics
    /\ run_pc' = "finished"
    /\ UNCHANGED <<run_input, run_error, run_warned, run_overrun, notRun>>

NextRun ==
    \/ CopyIndexAndDirections
    \/ CheckSubjects \/ CheckDesign \/ CheckPermutations \/ CheckContrast \/ CheckTracks
    \/ RunBuild \/ RunNormalise \/ RunSmooth \/ ConstructTest \/ RunPermutations

(***************************************************************************)
(* Properties of the order of run().                                       *)
(***************************************************************************)
TooManyColumnsMessage == "too many columns in contrast matrix"

\* the steps that follow the check of the number of tracks
AfterTracks == {"build", "normalise", "smooth", "glm", "permute", "finished", "aborted"}

\* the test has been constructed, or its construction has failed
Constructed ==
    \/ run_pc \in {"permute", "finished", "aborted"}
    \/ run_error = TooManyColumnsMessage

\* C13 (as claimed): every error about the inputs is raised before the
\* connectivity build, the normalisation, the smoothing and the GLM and
\* permutation phases have started
C13_ValidationBeforeComputation ==
    run_pc = "failed" => run_started = {}

\* every error but that of a multivariate contrast is raised before them
C13_ShapeChecksBeforeComputation ==
    (run_pc = "failed" /\ run_error # TooManyColumnsMessage) => run_started = {}

\* C14 (as claimed): a contrast matrix with more than one row and more than
\* one column is rejected with an error when the test is constructed; one
\* with a single row or a single column is accepted
C14_ContrastShapes ==
    Constructed =>
        IF run_input.contrast_rows > 1 /\ run_input.contrast_cols > 1
        THEN run_error = TooManyColumnsMessage
        ELSE run_error = "" /\ run_pc # "aborted" /\ ~run_overrun

\* a single row is accepted, and more than one row and column rejected
C14_SingleRowAccepted ==
    (Constructed /\ (run_input.contrast_rows = 1 \/ run_input.contrast_cols > 1)) =>
        C14_ContrastShapes

\* C15: with zero tracks, or no count, the run fails before the
\* connectivity build and no phase starts; with 1 to 999,999 tracks the
\* warning is emitted and the run goes on to the build, and from 1,000,000
\* tracks it goes on without the warning
C15_TrackCount ==
    /\ NumTracks(run_input) = 0 => (run_pc \notin AfterTracks /\ run_started = {})
    /\ run_error = "no tracks found in input file" =>
          (NumTracks(run_input) = 0 /\ run_started = {})
    /\ run_pc \in AfterTracks =>
          /\ NumTracks(run_input) >= 1
          /\ run_warned <=> NumTracks(run_input) < 1000000
    /\ run_warned => (NumTracks(run_input) \in 1..999999 /\ run_error # "no tracks found in input file")

\* C15 witness: 999,999 tracks: the warning was emitted and the build has run
C15_Witness ==
    /\ NumTracks(run_input) = 999999
    /\ run_warned
    /\ "build" \in run_started

(***************************************************************************)
(* Properties of the batches of the fixed-design t-test.                   *)
(***************************************************************************)
\* the rows [i, min(i+B, N)) of a batch that starts at row i
RowsOfBatch(i) == { f \in DOMAIN y : i <= f /\ f < i + GLM_BATCH_SIZE }

\* C16 (as claimed): for every batch start i the block read covers exactly
\* the rows [i, min(i+B, N)), every index written to stats is below N, and
\* the call returns with every fixel written; for N > B as for N <= B
C16_BatchesCoverRows ==
    /\ (glm_pc = "loop" /\ batch_i < NumElements) =>
          /\ batch_i % GLM_BATCH_SIZE = 0
          /\ BlockRows(batch_i) = Cardinality(RowsOfBatch(batch_i))
    /\ ~heap_overrun
    /\ glm_pc # "aborted"

\* the same holds while the measurements fit in one batch
C16_OneBatchCoversRows ==
    NumElements <= GLM_BATCH_SIZE => C16_BatchesCoverRows

(***************************************************************************)
(* rank (src/stats/permute.h).  A singular value is held in units of       *)
(* 1e-11, so that the tolerance 1.0e-10 is 10.                             *)
(***************************************************************************)
MaxSingular == 3
RankTolerance == 10

SingularValues == {0, 5, 10, 200, 3000}

\* gsl_linalg_SV_decomp: the singular values, none negative, in non-increasing order
SingularVectors ==
    { s \in UNION { [1..n -> SingularValues] : n \in 1..MaxSingular } :
        \A i \in 1..(Len(s) - 1) : s[i] >= s[i + 1] }

InitRank ==
    /\ rank_pc = "loop"
    /\ rank_S \in SingularVectors
    /\ rank_n = 0
    /\ rank_result = 0

\* return n+1;
RankAtSmall(n) == n + 1

\* one turn of the loop over n < N
RankTest ==
    /\ rank_pc = "loop"
    /\ rank_n < Len(rank_S)
    /\ IF rank_S[rank_n + 1] < RankTolerance
       THEN /\ rank_result' = RankAtSmall(rank_n)
            /\ rank_pc' = "returned"
            /\ UNCHANGED rank_n
       ELSE /\ rank_n' = rank_n + 1
            /\ UNCHANGED <<rank_pc, rank_result>>
    /\ UNCHANGED <<rank_S, notRank>>

\* return N;
RankFull ==
    /\ rank_pc = "loop"
    /\ rank_n >= Len(rank_S)
    /\ rank_result' = Len(rank_S)
    /\ rank_pc' = "returned"
    /\ UNCHANGED <<rank_S, rank_n, notRank>>

NextRank == RankTest \/ RankFull

\* the number of singular values that are not below the tolerance
TrueRank(s) == Cardinality({ n \in 1..Len(s) : s[n] >= RankTolerance })

\* C17 (as claimed): rank returns the number of singular values that are
\* not below the tolerance, so it is below min(rows, cols) whenever a
\* singular value is below the tolerance
C17_RankCountsSingularValues ==
    rank_pc = "returned" =>
        /\ rank_result = TrueRank(rank_S)
        /\ (\E n \in 1..Len(rank_S) : rank_S[n] < RankTolerance) => rank_result < Len(rank_S)

\* it does so when no singular value is below the tolerance
C17_FullRank ==
    (rank_pc = "returned" /\ \A n \in 1..Len(rank_S) : rank_S[n] >= RankTolerance) =>
        rank_result = TrueRank(rank_S)

\* what it returns otherwise: one more than the number of singular values
\* that are not below the tolerance
C17_OneTooMany ==
    (rank_pc = "returned" /\ \E n \in 1..Len(rank_S) : rank_S[n] < RankTolerance) =>
        rank_result = TrueRank(rank_S) + 1

(***************************************************************************)
(* Properties of the normalised connectivity graph.                        *)
(***************************************************************************)
\* no streamline count has reached 2^16 at any fixel
BelowWrap == \A f \in Fixels : Through(f) < TDIModulus

\* the fraction count / TDI[i] of the edge (i, j) the build stored
BuiltFraction(i, j) == Fraction(CoTraversals(i, j), fixel_TDI[i])

C18_Removed ==
    /\ Normalised
    /\ BelowWrap
    /\ \E i \in Fixels : \E j \in Fixels \ {i} :
          /\ CoTraversals(i, j) > 0
          /\ j \notin DOMAIN connectivity_matrix[i]

(***************************************************************************)
(* The pair increments of one streamline.                                  *)
(***************************************************************************)
CountIn(s, x) == Cardinality({ k \in DOMAIN s : s[k] = x })

\* the copies of streamline `id` that have not been committed yet or are being
\* committed: in the file, in a queue, held by a mapper or by an accumulator
Pending(id) ==
    CountIn(track_file, id) + CountIn(loader_queue, id)
      + Cardinality({ m \in Mappers : mapper_item[m] = << id >> })
      + CountIn(mapper_queue, MappedTable[id])
      + Cardinality({ w \in Accumulators :
                        acc[w].pc # "idle" /\ Range(acc[w].visit) = VisitSets[id] })

Committed(id) == Multiplicity(id) - Pending(id)

\* Committed, for every streamline of the catalogue
RECURSIVE CommittedUpTo(_)
CommittedUpTo(n) ==
    IF n = 0 THEN << >> ELSE Append(CommittedUpTo(n - 1), Committed(n))

\* the count of (i, j) after the committed copies of the streamlines 1..n,
\* `com` being the number of committed copies of every streamline
RECURSIVE CommittedCount(_, _, _, _)
CommittedCount(com, n, i, j) ==
    IF n = 0 THEN 0
    ELSE CommittedCount(com, n - 1, i, j)
           + (IF i # j /\ {i, j} \subseteq VisitSets[n] THEN com[n] ELSE 0)

\* the positions (p, q), p < q, of the visit list whose forward / backward
\* increment the accumulator has made in the commit it is in
PairsOf(a) == { pq \in (DOMAIN a.visit) \X (DOMAIN a.visit) : pq[1] < pq[2] }

Before(pq, a) == pq[1] < a.i \/ (pq[1] = a.i /\ pq[2] < a.j)

DoneFwd(a) ==
    CASE a.pc = "unlock" -> PairsOf(a)
      [] a.pc = "fwd"    -> { pq \in PairsOf(a) : Before(pq, a) }
      [] a.pc = "bwd"    -> { pq \in PairsOf(a) : Before(pq, a) \/ pq = <<a.i, a.j>> }
      [] OTHER           -> {}

DoneBwd(a) ==
    CASE a.pc = "unlock" -> PairsOf(a)
      [] a.pc \in {"fwd", "bwd"} -> { pq \in PairsOf(a) : Before(pq, a) }
      [] OTHER           -> {}

\* the increments of (i, j) made so far by the commits in progress of the
\* accumulators 1..n
RECURSIVE InProgressUpTo(_, _, _)
InProgressUpTo(n, i, j) ==
    IF n = 0 THEN 0
    ELSE InProgressUpTo(n - 1, i, j)
           + Cardinality({ pq \in DoneFwd(acc[n]) :
                             acc[n].visit[pq[1]] = i /\ acc[n].visit[pq[2]] = j })
           + Cardinality({ pq \in DoneBwd(acc[n]) :
                             acc[n].visit[pq[2]] = i /\ acc[n].visit[pq[1]] = j })

InProgress(i, j) == InProgressUpTo(NumAccumulators, i, j)

\* the streamline held by accumulator w has made all its increments
CommitComplete(w) == acc[w].pc = "unlock"

\* C19: a streamline assigned to k distinct fixels adds exactly 1 to each of
\* the k(k-1)/2 unordered pairs {i, j}, i # j, of its visit set, in both
\* directions, and to nothing else; no self-edge (i, i) exists; a fixel is in
\* the visit list once however often the streamline passed through it
C19_PairIncrements ==
    phase \in {"build", "built"} =>
        /\ LET com == CommittedUpTo(Len(Catalogue))
           IN  \A i, j \in Fixels :
                  EdgeCount(connectivity_matrix, i, j)
                      = CommittedCount(com, Len(Catalogue), i, j) + InProgress(i, j)
        /\ \A i \in Fixels : i \notin DOMAIN connectivity_matrix[i]
        /\ \A w \in Accumulators :
              LET k == Cardinality(Range(acc[w].visit))
              IN  /\ Len(acc[w].visit) = k
                  /\ CommitComplete(w) =>
                        /\ 2 * Cardinality(DoneFwd(acc[w])) = k * (k - 1)
                        /\ DoneBwd(acc[w]) = DoneFwd(acc[w])
                        /\ \A i, j \in Fixels :
                              InProgress(i, j) =
                                  IF i # j /\ {i, j} \subseteq Range(acc[w].visit)
                                  THEN 1 ELSE 0

\* C19 witness: the streamline that passes twice through one voxel has made
\* all its increments, three pairs for its three fixels
C19_Witness ==
    /\ phase = "build"
    /\ \E w \in Accumulators :
          /\ CommitComplete(w)
          /\ acc[w].visit = VisitOf(1)
          /\ Len(Catalogue[1]) > Cardinality(Range(VisitOf(1)))
          /\ Cardinality(Range(VisitOf(1))) = 3
          /\ Cardinality(DoneFwd(acc[w])) = 3

(***************************************************************************)
(* The permutation pipeline (run_permutations, called at lines 566-577):   *)
(* a source producing the permutation indices feeds a pool of workers      *)
(* through a bounded queue; a worker takes an index, computes that         *)
(* permutation and writes its row of perm_distribution.                    *)
(***************************************************************************)
MaxPipePerms == 3
MaxWorkers == 2
PipeQueueCap == 1

PipeRows == 0 .. (pipe_nperms - 1)
PipeWorkers == DOMAIN pipe_pc

InitPipe ==
    /\ pipe_nperms \in 1..MaxPipePerms
    /\ pipe_pc \in UNION { [1..n -> {"idle"}] : n \in 1..MaxWorkers }
    /\ pipe_held = [w \in DOMAIN pipe_pc |-> -1]
    /\ pipe_counter = 0
    /\ pipe_queue = << >>
    /\ pipe_assigned = [r \in 0 .. (pipe_nperms - 1) |-> << >>]
    /\ pipe_written = [r \in 0 .. (pipe_nperms - 1) |-> << >>]

\* the source puts the next permutation index on the queue
PipeProduce ==
    /\ pipe_counter < pipe_nperms
    /\ Len(pipe_queue) < PipeQueueCap
    /\ pipe_queue' = Append(pipe_queue, pipe_counter)
    /\ pipe_counter' = pipe_counter + 1
    /\ UNCHANGED <<pipe_pc, pipe_held, pipe_nperms, pipe_assigned, pipe_written, notPipe>>

\* (mutant) a read of the queue that leaves the item on it
Dequeued_Peek(queue) == queue

\* the queue after the item at its head has been taken off
Dequeued(queue) == Tail(queue)

\* a worker takes the index at the head of the queue
PipeTake(w) ==
    /\ pipe_pc[w] = "idle"
    /\ pipe_queue # << >>
    /\ pipe_held' = [pipe_held EXCEPT ![w] = Head(pipe_queue)]
    /\ pipe_assigned' = [pipe_assigned EXCEPT ![Head(pipe_queue)] = Append(@, w)]
    /\ pipe_queue' = Dequeued(pipe_queue)
    /\ pipe_pc' = [pipe_pc EXCEPT ![w] = "holding"]
    /\ UNCHANGED <<pipe_counter, pipe_nperms, pipe_written, notPipe>>

\* the worker has computed its permutation and writes its row
PipeWrite(w) ==
    /\ pipe_pc[w] = "holding"
    /\ pipe_written' = [pipe_written EXCEPT ![pipe_held[w]] = Append(@, w)]
    /\ pipe_held' = [pipe_held EXCEPT ![w] = -1]
    /\ pipe_pc' = [pipe_pc EXCEPT ![w] = "idle"]
    /\ UNCHANGED <<pipe_counter, pipe_queue, pipe_nperms, pipe_assigned, notPipe>>

\* the source has finished and the queue is empty: the worker ends
PipeStop(w) ==
    /\ pipe_pc[w] = "idle"
    /\ pipe_counter = pipe_nperms
    /\ pipe_queue = << >>
    /\ pipe_pc' = [pipe_pc EXCEPT ![w] = "stopped"]
    /\ UNCHANGED <<pipe_held, pipe_counter, pipe_queue, pipe_nperms, pipe_assigned,
                   pipe_written, notPipe>>

NextPipe ==
    \/ PipeProduce
    \/ \E w \in PipeWorkers : PipeTake(w)
    \/ \E w \in PipeWorkers : PipeWrite(w)
    \/ \E w \in PipeWorkers : PipeStop(w)

PipeFinished == \A w \in PipeWorkers : pipe_pc[w] = "stopped"

\* C20: every permutation index is assigned to exactly one worker (at any
\* time it is either still to be produced, or in the queue once, or has
\* been taken by one worker); a row of the null distribution is written at
\* most once, by the worker the index was assigned to; and when the
\* pipeline has finished every row has been written exactly once
C20_RowsWrittenOnce ==
    \A r \in PipeRows :
        /\ (IF r >= pipe_counter THEN 1 ELSE 0) + CountIn(pipe_queue, r)
               + Len(pipe_assigned[r]) = 1
        /\ Len(pipe_written[r]) <= 1
        /\ pipe_written[r] # << >> => pipe_written[r] = pipe_assigned[r]
        /\ \A w \in PipeWorkers :
              pipe_held[w] = r => pipe_assigned[r] = << w >> /\ pipe_written[r] = << >>
        /\ PipeFinished => Len(pipe_written[r]) = 1

\* C20 witness: the pipeline has finished and two workers have each written
\* rows of the null distribution
C20_Witness ==
    /\ PipeFinished
    /\ pipe_nperms >= 2
    /\ \E r, q \in PipeRows :
          /\ pipe_written[r] # << >>
          /\ pipe_written[q] # << >>
          /\ pipe_written[r] # pipe_written[q]

(***************************************************************************)
(* The statistics of the default permutation when element-wise design      *)
(* columns are supplied (run(), lines 436-512): Source hands out the fixel *)
(* indices, Thread::run_queue passes them to the copies of Functor.        *)
(***************************************************************************)
MaxStatFixels == 4
NumFunctors == 2
IndexQueueCap == 1

StatFixels == 0 .. (num_fixels - 1)
Functors == DOMAIN functor_pc

\* Source (num_fixels) : counter (0); the queue is empty and every copy of
\* the functor waits
InitAllStats ==
    /\ num_fixels \in 1..MaxStatFixels
    /\ counter = 0
    /\ source_pc = "running"
    /\ index_queue = << >>
    /\ functor_pc \in UNION { [1..n -> {"idle"}] : n \in 1..NumFunctors }
    /\ functor_index = [w \in DOMAIN functor_pc |-> -1]
    /\ global_columns = [f \in 0 .. (num_fixels - 1) |-> << >>]

\* if (counter >= num_fixels) return false;  tested after  counter++
SourceEnds(next_counter, n) == next_counter >= n

\* Source::operator(): fixel_index = counter++, then the test; run_queue
\* passes the item on when the call returned true and stops the source,
\* without the item, when it returned false
SourceCall ==
    /\ source_pc = "running"
    /\ Len(index_queue) < IndexQueueCap
    /\ counter' = counter + 1
    /\ IF SourceEnds(counter + 1, num_fixels)
       THEN /\ source_pc' = "ended"
            /\ index_queue' = index_queue
       ELSE /\ source_pc' = "running"
            /\ index_queue' = Append(index_queue, counter)
    /\ UNCHANGED <<num_fixels, functor_pc, functor_index, global_columns, notAllStats>>

\* a copy of the functor is given the next item of the queue
FunctorTake(w) ==
    /\ functor_pc[w] = "idle"
    /\ index_queue # << >>
    /\ functor_index' = [functor_index EXCEPT ![w] = Head(index_queue)]
    /\ index_queue' = Tail(index_queue)
    /\ functor_pc' = [functor_pc EXCEPT ![w] = "holding"]
    /\ UNCHANGED <<num_fixels, counter, source_pc, global_columns, notAllStats>>

\* Functor::operator(): all_stats for the fixel, then the column fixel_index
\* of global_betas, global_abs_effect_size, global_std_effect_size and
\* global_stdev is assigned
FunctorCall(w) ==
    /\ functor_pc[w] = "holding"
    /\ global_columns' = [global_columns EXCEPT ![functor_index[w]] = Append(@, w)]
    /\ functor_index' = [functor_index EXCEPT ![w] = -1]
    /\ functor_pc' = [functor_pc EXCEPT ![w] = "idle"]
    /\ UNCHANGED <<num_fixels, counter, source_pc, index_queue, notAllStats>>

\* the source has ended and the queue is empty: the thread of the functor ends
FunctorEnd(w) ==
    /\ functor_pc[w] = "idle"
    /\ source_pc = "ended"
    /\ index_queue = << >>
    /\ functor_pc' = [functor_pc EXCEPT ![w] = "ended"]
    /\ UNCHANGED <<num_fixels, counter, source_pc, index_queue, functor_index,
                   global_columns, notAllStats>>

NextAllStats ==
    \/ SourceCall
    \/ \E w \in Functors : FunctorTake(w)
    \/ \E w \in Functors : FunctorCall(w)
    \/ \E w \in Functors : FunctorEnd(w)

\* run_queue has returned
AllStatsDone == source_pc = "ended" /\ \A w \in Functors : functor_pc[w] = "ended"

\* C21 (as claimed): the source delivers every fixel index of
\* [0, num_fixels) exactly once before it signals completion, so that when
\* run_queue has returned every column, the last one included, has been
\* written exactly once
C21_EveryColumnWritten ==
    AllStatsDone => \A f \in StatFixels : Len(global_columns[f]) = 1

\* where the claim does hold: no column is written twice, and when run_queue
\* has returned every column but the last has been written once; the last
\* fixel's column has never been written
C21_AllButTheLast ==
    /\ \A f \in StatFixels : Len(global_columns[f]) <= 1
    /\ global_columns[num_fixels - 1] = << >>
    /\ AllStatsDone =>
          \A f \in StatFixels : f < num_fixels - 1 => Len(global_columns[f]) = 1

\* run_queue has returned with two functors having written columns
C21_Returned ==
    /\ AllStatsDone
    /\ \E f, g \in StatFixels :
          /\ global_columns[f] # << >>
          /\ global_columns[g] # << >>
          /\ global_columns[f] # global_columns[g]

(***************************************************************************)
(* max_stat and min_stat on return of GLMTTest::operator().                *)
(***************************************************************************)
\* the caller handed in max_stat below and min_stat above every t-value
SeededBeyond == caller_stat = <<Inf(-1), Inf(1)>>

\* the t-values of the rows of the measurements
AllTValues == { ttest(SX, pinvSX, r, scaled_contrasts) : r \in { y[f] : f \in DOMAIN y } }

FiniteTValues == { t \in AllTValues : IsFinite(t) }

StatsValues == { stats[f] : f \in DOMAIN stats }

ReturnedIntact == glm_pc = "returned" /\ ~heap_overrun

PastPermutations == run_pc \in {"contrast", "tracks"} \cup AfterTracks

\* what run() itself ensures about a supplied permutations file: past its
\* check, the first vector of the file has as many entries as the design
\* matrix has rows; a first vector of another length ends the run with an
\* error before any computation has started
C23_FirstVectorChecked ==
    /\ (PastPermutations /\ run_input.perm_rows # 0) =>
          run_input.perm_rows = run_input.design_rows
    /\ (run_input.subjects_match
          /\ run_input.design_rows = run_input.num_files
          /\ run_input.perm_rows # 0
          /\ run_input.perm_rows # run_input.design_rows
          /\ run_pc \notin {"copy", "subjects", "design", "permutations"}) =>
              /\ run_pc = "failed"
              /\ run_started = {}

\* a permutations file with a first vector of the wrong length has been rejected
C23_Rejected ==
    /\ run_pc = "failed"
    /\ run_input.perm_rows # 0
    /\ run_input.perm_rows # run_input.design_rows
    /\ run_input.design_rows = run_input.num_files

(***************************************************************************)
(* The output fixel directory when run() fails.                            *)
(***************************************************************************)
\* the errors of the checks of the inputs named by C24 (the subject images,
\* the design rows, the permutations file, the contrast columns, the tracks)
ValidationFailed ==
    /\ run_pc = "failed"
    /\ run_error # TooManyColumnsMessage

\* C24 (as claimed): when a check of the inputs fails, the run ends with
\* the output fixel directory untouched: nothing has been created in it or
\* copied to it
C24_OutputUntouchedOnFailure ==
    ValidationFailed => run_output = {}

\* what does hold: when a check of the inputs fails the output directory
\* holds the copies of the template's index and directions images, made
\* before the first check, and none of the statistics
C24_OnlyTemplateCopied ==
    ValidationFailed => run_output = TemplateCopy

\* each of the five checks has been seen to fail
C24_SubjectsFailed ==
    ValidationFailed /\ ~run_input.subjects_match

C24_TracksFailed ==
    ValidationFailed /\ run_error = "no tracks found in input file"

(***************************************************************************)
(* The specifications.  Each runs one part of the program; the variables   *)
(* of the other parts rest.                                                *)
(***************************************************************************)
ConnectivityAtRest ==
    /\ phase = "rest"
    /\ track_input = << >>
    /\ track_file = << >>
    /\ num_preloaded = 0
    /\ loader_queue = << >>
    /\ mapper_item = [m \in Mappers |-> << >>]
    /\ mapper_queue = << >>
    /\ acc = [w \in Accumulators |-> IdleAcc]
    /\ mutex = 0
    /\ fixel_TDI = PreloadedTDI(0)
    /\ connectivity_matrix = PreloadedMatrix(0)
    /\ connectivity_threshold = DEFAULT_CONNECTIVITY_THRESHOLD
    /\ smooth_fwhm = DEFAULT_SMOOTHING_STD
    /\ do_smoothing = FALSE
    /\ gaussian_const1 = One
    /\ norm_fixel = 0
    /\ smoothing_weights = [f \in Fixels |-> EmptyRow]
    /\ subject_image = << >>
    /\ data = << >>
    /\ nans_in_data = FALSE

GLMAtRest ==
    /\ glm_pc = "rest"
    /\ caller_stat = << >>
    /\ y = << >>
    /\ X = << >>
    /\ pinvX = << >>
    /\ scaled_contrasts = << >>
    /\ perm_labelling = << >>
    /\ stats = << >>
    /\ max_stat = Zero
    /\ min_stat = Zero
    /\ SX = << >>
    /\ pinvSX = << >>
    /\ batch_i = 0
    /\ heap_overrun = FALSE

PvalueAtRest ==
    /\ pv_pc = "rest"
    /\ perm_dist = << >>
    /\ permutations = << >>
    /\ stat_voxel = << >>
    /\ p_voxel = << >>
    /\ outer = 1

RunAtRest ==
    /\ run_pc = "rest"
    /\ run_input = << >>
    /\ run_error = ""
    /\ run_warned = FALSE
    /\ run_started = {}
    /\ run_overrun = FALSE
    /\ run_output = {}

RankAtRest ==
    /\ rank_pc = "rest"
    /\ rank_S = << >>
    /\ rank_n = 0
    /\ rank_result = 0

PipeAtRest ==
    /\ pipe_pc = << >>
    /\ pipe_held = << >>
    /\ pipe_counter = 0
    /\ pipe_queue = << >>
    /\ pipe_nperms = 0
    /\ pipe_assigned = << >>
    /\ pipe_written = << >>

AllStatsAtRest ==
    /\ num_fixels = 0
    /\ counter = 0
    /\ source_pc = "rest"
    /\ index_queue = << >>
    /\ functor_pc = << >>
    /\ functor_index = << >>
    /\ global_columns = << >>

CoreAtRest == ConnectivityAtRest /\ GLMAtRest /\ PvalueAtRest

SupportAtRest ==
    GenerateAtRest /\ RunAtRest /\ RankAtRest /\ PipeAtRest /\ AllStatsAtRest

\* the connectivity build, the normalisation and the smoothing
InitRunConnectivity ==
    /\ InitConnectivity
    /\ GLMAtRest
    /\ PvalueAtRest
    /\ SupportAtRest

SpecConnectivity == InitRunConnectivity /\ [][NextConnectivity]_vars

\* one call of the fixed-design t-test
InitRunGLM ==
    /\ InitGLM
    /\ ConnectivityAtRest
    /\ PvalueAtRest
    /\ SupportAtRest

SpecGLM == InitRunGLM /\ [][NextGLM]_vars

\* one call of statistic2pvalue
InitRunPvalue ==
    /\ InitPvalue
    /\ ConnectivityAtRest
    /\ GLMAtRest
    /\ SupportAtRest

SpecPvalue == InitRunPvalue /\ [][NextPvalue]_vars

\* the generation of one list of permutations
InitRunGenerate ==
    /\ InitGenerate
    /\ CoreAtRest
    /\ AllStatsAtRest
    /\ RunAtRest
    /\ RankAtRest
    /\ PipeAtRest

SpecGenerate == InitRunGenerate /\ [][NextGenerate]_vars

\* the same, with the steps of the loop taken and a uniform draw
SpecGenerateFair ==
    /\ SpecGenerate
    /\ WF_vars(NextGenerate)
    /\ SF_vars(GenDrawFresh)

\* one run of the command
InitRunCommand ==
    /\ InitRun
    /\ CoreAtRest
    /\ AllStatsAtRest
    /\ GenerateAtRest
    /\ RankAtRest
    /\ PipeAtRest

SpecRun == InitRunCommand /\ [][NextRun]_vars

\* one call of rank
InitRunRank ==
    /\ InitRank
    /\ CoreAtRest
    /\ AllStatsAtRest
    /\ GenerateAtRest
    /\ RunAtRest
    /\ PipeAtRest

SpecRank == InitRunRank /\ [][NextRank]_vars

\* one run of the permutation pipeline
InitRunPipe ==
    /\ InitPipe
    /\ CoreAtRest
    /\ AllStatsAtRest
    /\ GenerateAtRest
    /\ RunAtRest
    /\ RankAtRest

SpecPipe == InitRunPipe /\ [][NextPipe]_vars

\* the statistics of the default permutation, fixel by fixel
InitRunAllStats ==
    /\ InitAllStats
    /\ CoreAtRest
    /\ GenerateAtRest
    /\ RunAtRest
    /\ RankAtRest
    /\ PipeAtRest

SpecAllStats == InitRunAllStats /\ [][NextAllStats]_vars

====
